---- MODULE Spec2Model ----
(***************************************************************************)
(* Model of the infrared signal codec of RP_UI_App:                        *)
(*   src/src/ir/ir_decode.py   timing normalisation and protocol decoders  *)
(*   src/src/ir/lirc_client.py scancode packing, capture normalisation,    *)
(*                             burst segmentation                          *)
(*   src/src/ir/flipper_ir.py  signal records written to and read from     *)
(*                             text                                        *)
(*   src/src/ui/app.py         capture aggregation of the Learn screen     *)
(* Text is modelled as TLC strings, read one character at a time with      *)
(* SubSeq; timing lists are sequences of integers (microseconds).          *)
(***************************************************************************)
EXTENDS Integers, Sequences, FiniteSets, TLC

VARIABLES
    norm_impl,      \* which normaliser runs: "ir_decode" or "lirc_client"
    norm_input,     \* the signed timing list handed to the normaliser
    norm_output,    \* its result
    norm_again,     \* the result of normalising norm_output once more
    norm_pc,        \* "start", "once", "twice" ("idle" outside SpecNormalize)
    cap_frame,      \* the frame on the air: what the capture collaborator saw
    cap_samples,    \* the raw timing list handed to decode_raw_timings
    dec_result,     \* what decode_raw_timings returned (or raised)
    dec_pc,         \* "captured", "decoded" ("idle" outside SpecDecode)
    sc_protocol,    \* protocol name of the parsed signal to send
    sc_address,     \* its address text
    sc_command,     \* its command text
    sc_scancode,    \* what _build_scancode returned
    sc_decoded,     \* what decode_scancode made of that scancode
    sc_pc,          \* "parsed", "built", "decoded", "received", "rx_decoded"
    fl_signals,     \* the signal records handed to serialize_signals
    fl_text,        \* the text of the remote's file
    fl_parsed,      \* what parse_signals returned for fl_text
    fl_pc,          \* "records", "written", "read", "file", "file_read",
                    \* "library", "library_read"
    ag_captures,    \* IRScreen._captures, the captures of the learn session
    ag_selection,   \* the selected row of the capture list, 0 for none
    ag_mode,        \* IRScreen._aggregate_mode
    ag_detail,      \* IRScreen._capture_detail
    ag_aggregate,   \* what _aggregate_capture returned to _selected_capture
    ag_selected,    \* what _selected_capture returned
    bu_data,        \* the timing list of a raw capture
    bu_bursts,      \* what _split_bursts returned for it
    bu_pc,          \* "captured", "split" ("idle" outside SpecBursts)
    bb_data,        \* the timing list of a capture made of several bursts
    bb_result,      \* what _decode_best_burst returned for it (or raised)
    bb_pc,          \* "captured", "chosen" ("idle" outside SpecBestBurst)
    cr_input,       \* the receiver device, its output lines, and when a stop is requested
    cr_result,      \* what _capture_raw_signal returned (or raised)
    cr_pc,          \* "receiving", "returned" ("idle" outside SpecCaptureRaw)
    ls_screen,      \* the IR subscreen shown ("" outside SpecLearn)
    ls_threads,     \* the capture threads started so far, each by its position
    ls_stop,        \* IRScreen._capture_stop is set
    ls_captures,    \* the number of entries of IRScreen._captures
    ls_queue,       \* the number of _add_capture calls queued with after()
    ls_event,       \* the handler or thread step that ran last
    lib_files,      \* the .ir files under the store's root: <<name, content>> pairs
    lib_dirs,       \* the folders under the store's root ("" is the root)
    lib_call        \* the last IRLibraryStore call, its outcome and the files before it

normVars == <<norm_impl, norm_input, norm_output, norm_again, norm_pc>>
decVars == <<cap_frame, cap_samples, dec_result, dec_pc>>
scVars == <<sc_protocol, sc_address, sc_command, sc_scancode, sc_decoded, sc_pc>>
flVars == <<fl_signals, fl_text, fl_parsed, fl_pc>>
agVars == <<ag_captures, ag_selection, ag_mode, ag_detail, ag_aggregate, ag_selected>>
buVars == <<bu_data, bu_bursts, bu_pc>>
bbVars == <<bb_data, bb_result, bb_pc>>
crVars == <<cr_input, cr_result, cr_pc>>
lsVars == <<ls_screen, ls_threads, ls_stop, ls_captures, ls_queue, ls_event>>
libVars == <<lib_files, lib_dirs, lib_call>>
vars == <<normVars, decVars, scVars, flVars, agVars, buVars, bbVars, crVars, lsVars, libVars>>

(***************************************************************************)
(* Generic helpers.                                                        *)
(***************************************************************************)
Abs(v) == IF v < 0 THEN -v ELSE v

DropLast(s) == SubSeq(s, 1, Len(s) - 1)

BoundedSeq(S, n) == UNION {[1..k -> S] : k \in 0..n}

(***************************************************************************)
(* Timing normalisation: ir_decode._normalize_timings and its twin         *)
(* LircClient._normalize_signed_timings.                                   *)
(***************************************************************************)
\* [value for value in samples if value != 0]
_drop_zeros(samples) == SelectSeq(samples, LAMBDA value : value # 0)

\* if signed[0] < 0: signed = signed[1:]
_drop_leading_space(signed) == IF signed[1] < 0 THEN Tail(signed) ELSE signed

\* [abs(value) for value in signed]
_abs_values(signed) == [i \in 1..Len(signed) |-> Abs(signed[i])]

\* if len(abs_values) % 2 == 1: abs_values = abs_values[:-1]
_trim_odd(abs_values) ==
    IF Len(abs_values) % 2 = 1 THEN DropLast(abs_values) ELSE abs_values

\* the trailing-timeout drop without the second odd-length trim
_drop_trailing_timeout_no_retrim(abs_values) ==
    IF abs_values # <<>> /\ abs_values[Len(abs_values)] > 15000
    THEN DropLast(abs_values)
    ELSE abs_values

\* if abs_values and abs_values[-1] > 15000: drop it, then trim odd again
_drop_trailing_timeout(abs_values) ==
    IF abs_values # <<>> /\ abs_values[Len(abs_values)] > 15000
    THEN _trim_odd(DropLast(abs_values))
    ELSE abs_values

_normalize_timings(samples) ==
    IF samples = <<>> THEN <<>>
    ELSE LET signed == _drop_zeros(samples) IN
         IF signed = <<>> THEN <<>>
         ELSE _drop_trailing_timeout(
                  _trim_odd(_abs_values(_drop_leading_space(signed))))

_normalize_signed_timings(signed_data) ==
    IF signed_data = <<>> THEN <<>>
    ELSE LET values == _drop_zeros(signed_data) IN
         IF values = <<>> THEN <<>>
         ELSE _drop_trailing_timeout(
                  _trim_odd(_abs_values(_drop_leading_space(values))))

Normalize(impl, samples) ==
    IF impl = "ir_decode" THEN _normalize_timings(samples)
    ELSE _normalize_signed_timings(samples)

(***************************************************************************)
(* Protocol decoders of ir_decode.py.  A result is a DecodedIR, None, or   *)
(* an exception that left the function.                                    *)
(***************************************************************************)
None == [kind |-> "None", protocol |-> "", address |-> "", command |-> "",
         bits |-> 0]

DecodedIR(protocol, address, command, bits) ==
    [kind |-> "DecodedIR", protocol |-> protocol, address |-> address,
     command |-> command, bits |-> bits]

\* an exception propagating out of a decoder; protocol holds its type
Raised(exc) == [kind |-> "raise", protocol |-> exc, address |-> "",
                command |-> "", bits |-> 0]

\* abs(value - target) <= target * tolerance, tolerance given in percent
_approx(value, target, tolerance_pct) ==
    IF target <= 0 THEN FALSE
    ELSE 100 * Abs(value - target) <= target * tolerance_pct

\* the same comparison made strict
_match_us_strict(value, target, tolerance_us) ==
    Abs(value - target) < tolerance_us

_match_us(value, target, tolerance_us) ==
    Abs(value - target) <= tolerance_us

RECURSIVE Pow2(_)
Pow2(n) == IF n = 0 THEN 1 ELSE 2 * Pow2(n - 1)

RECURSIVE _bits_lsb_first(_, _)
_bits_lsb_first(bits, idx) ==
    IF idx > Len(bits) THEN 0
    ELSE (IF bits[idx] # 0 THEN Pow2(idx - 1) ELSE 0)
         + _bits_lsb_first(bits, idx + 1)

RECURSIVE _bits_msb_first(_, _, _)
_bits_msb_first(bits, idx, total) ==
    IF idx > Len(bits) THEN total
    ELSE _bits_msb_first(bits, idx + 1,
                         2 * total + (IF bits[idx] # 0 THEN 1 ELSE 0))

_bits_to_int(bits, lsb_first) ==
    IF lsb_first THEN _bits_lsb_first(bits, 1)
    ELSE _bits_msb_first(bits, 1, 0)

\* bits[lo:hi] of Python (0-based, hi exclusive, clipped to the list)
Slice(s, lo, hi) ==
    LET h == IF hi > Len(s) THEN Len(s) ELSE hi
    IN IF lo >= h THEN <<>> ELSE SubSeq(s, lo + 1, h)

UpperHexDigits == "0123456789ABCDEF"

RECURSIVE HexUpper(_)
HexUpper(value) ==
    (IF value >= 16 THEN HexUpper(value \div 16) ELSE "")
    \o SubSeq(UpperHexDigits, (value % 16) + 1, (value % 16) + 1)

\* f"{value:02X}"
Hex02X(value) == IF value < 16 THEN "0" \o HexUpper(value) ELSE HexUpper(value)

RECURSIVE JoinSpace(_)
JoinSpace(strs) ==
    IF strs = <<>> THEN ""
    ELSE IF Len(strs) = 1 THEN strs[1]
    ELSE strs[1] \o " " \o JoinSpace(Tail(strs))

\* " ".join(f"{value:02X}" for value in values) or "00"
_format_bytes(values) ==
    LET text == JoinSpace([i \in 1..Len(values) |-> Hex02X(values[i])])
    IN IF text = "" THEN "00" ELSE text

\* Optional[List[int]] of _decode_pulse_distance, or the TypeError of a call
\* that does not supply all six positional parameters
NoBits == [ok |-> FALSE, raised |-> FALSE, bits |-> <<>>]
SomeBits(bits) == [ok |-> TRUE, raised |-> FALSE, bits |-> bits]
CallTypeError == [ok |-> FALSE, raised |-> TRUE, bits |-> <<>>]

RECURSIVE _pulse_distance_loop(_, _, _, _, _, _, _, _)
_pulse_distance_loop(samples, pulse_us, zero_space_us, one_space_us, expected_bits, tolerance_us, index, bits) ==
    IF ~(index + 1 < Len(samples) /\ Len(bits) < expected_bits) THEN bits
    ELSE LET pulse == samples[index + 1]
             space == samples[index + 2]
         IN IF ~_match_us(pulse, pulse_us, tolerance_us) THEN bits
            ELSE IF _match_us(space, zero_space_us, tolerance_us)
            THEN _pulse_distance_loop(samples, pulse_us, zero_space_us,
                     one_space_us, expected_bits, tolerance_us, index + 2,
                     Append(bits, 0))
            ELSE IF _match_us(space, one_space_us, tolerance_us)
            THEN _pulse_distance_loop(samples, pulse_us, zero_space_us,
                     one_space_us, expected_bits, tolerance_us, index + 2,
                     Append(bits, 1))
            ELSE bits

\* tolerance_args is the tuple of arguments supplied after expected_bits:
\* tolerance_us has no default, so an empty tuple is a TypeError at the call
_decode_pulse_distance(samples, pulse_us, zero_space_us, one_space_us, expected_bits, tolerance_args) ==
    IF Len(tolerance_args) # 1 THEN CallTypeError
    ELSE LET bits == _pulse_distance_loop(samples, pulse_us, zero_space_us,
                         one_space_us, expected_bits, tolerance_args[1], 0,
                         <<>>)
         IN IF Len(bits) < expected_bits THEN NoBits ELSE SomeBits(bits)

\* value ^ 0xFF for a value of one byte (0..255)
XorFF(value) == 255 - value

\* [_bits_to_int(bits[i : i + 8]) for i in range(0, stop, 8)]
BytesOf(bits, stop) ==
    [k \in 1..((stop + 7) \div 8) |->
        _bits_to_int(Slice(bits, 8 * (k - 1), 8 * k), TRUE)]

\* `not bits or len(bits) < n`
Insufficient(r, n) == ~r.ok \/ r.bits = <<>> \/ Len(r.bits) < n

_decode_nec(samples) ==
    IF Len(samples) < 2 THEN None
    ELSE IF ~(_match_us(samples[1], 9000, 200) /\ _match_us(samples[2], 4500, 200))
    THEN None
    ELSE LET r == _decode_pulse_distance(Tail(Tail(samples)), 560, 560, 1690,
                                         32, <<120>>)
         IN IF r.raised THEN Raised("TypeError")
            ELSE IF Insufficient(r, 32) THEN None
            ELSE LET bytes_ == BytesOf(r.bits, 32)
                 IN IF     XorFF(bytes_[1]) = bytes_[2]
                        /\ XorFF(bytes_[3]) = bytes_[4]
                    THEN DecodedIR("NEC", _format_bytes(<<bytes_[1]>>),
                                   _format_bytes(<<bytes_[3]>>), 32)
                    ELSE None

_decode_nec_ext(samples) ==
    IF Len(samples) < 2 THEN None
    ELSE IF ~(_match_us(samples[1], 9000, 200) /\ _match_us(samples[2], 4500, 200))
    THEN None
    ELSE LET r == _decode_pulse_distance(Tail(Tail(samples)), 560, 560, 1690,
                                         32, <<120>>)
         IN IF r.raised THEN Raised("TypeError")
            ELSE IF Insufficient(r, 32) THEN None
            ELSE LET bytes_ == BytesOf(r.bits, 32)
                 IN DecodedIR("NECext", _format_bytes(Slice(bytes_, 0, 2)),
                              _format_bytes(Slice(bytes_, 2, 4)), 32)

_decode_samsung(samples) ==
    IF Len(samples) < 2 THEN None
    ELSE IF ~(_match_us(samples[1], 4500, 200) /\ _match_us(samples[2], 4500, 200))
    THEN None
    ELSE LET r == _decode_pulse_distance(Tail(Tail(samples)), 550, 550, 1650, 32, <<120>>)
         IN IF r.raised THEN Raised("TypeError")
            ELSE IF Insufficient(r, 32) THEN None
            ELSE LET bytes_ == BytesOf(r.bits, 32)
                 IN DecodedIR("Samsung32", _format_bytes(Slice(bytes_, 0, 2)),
                              _format_bytes(Slice(bytes_, 2, 4)), 32)

_decode_jvc(samples) ==
    IF Len(samples) < 2 THEN None
    ELSE IF ~(_approx(samples[1], 8400, 25) /\ _approx(samples[2], 4200, 30))
    THEN None
    ELSE LET r == _decode_pulse_distance(Tail(Tail(samples)), 525, 525, 1575, 16, <<120>>)
         IN IF r.raised THEN Raised("TypeError")
            ELSE IF Insufficient(r, 16) THEN None
            ELSE LET addr == _bits_to_int(Slice(r.bits, 0, 8), TRUE)
                     cmd == _bits_to_int(Slice(r.bits, 8, 16), TRUE)
                 IN DecodedIR("JVC", _format_bytes(<<addr>>),
                              _format_bytes(<<cmd>>), 16)

RECURSIVE _sony_loop(_, _, _)
_sony_loop(samples, index, bits) ==
    IF ~(index + 1 < Len(samples)) THEN bits
    ELSE LET pulse == samples[index + 1]
             space == samples[index + 2]
         IN IF ~_match_us(space, 600, 120) THEN bits
            ELSE IF _match_us(pulse, 600, 120)
            THEN _sony_loop(samples, index + 2, Append(bits, 0))
            ELSE IF _match_us(pulse, 1200, 120)
            THEN _sony_loop(samples, index + 2, Append(bits, 1))
            ELSE bits

\* (value >> (8 * (byte_len - 1 - idx))) & 0xFF for idx in range(byte_len)
_format_int_bytes(value, bit_count) ==
    LET n == (bit_count + 7) \div 8
        byte_len == IF n < 1 THEN 1 ELSE n
    IN _format_bytes([k \in 1..byte_len |->
                          (value \div Pow2(8 * (byte_len - k))) % 256])

_decode_sony(samples) ==
    IF Len(samples) < 2 THEN None
    ELSE IF ~(_match_us(samples[1], 2400, 200) /\ _match_us(samples[2], 600, 120))
    THEN None
    ELSE LET bits == _sony_loop(samples, 2, <<>>)
         IN IF Len(bits) \notin {12, 15, 20} THEN None
            ELSE LET command == _bits_to_int(Slice(bits, 0, 7), TRUE)
                     address_bits == Slice(bits, 7, Len(bits))
                     address == _format_int_bytes(_bits_to_int(address_bits, TRUE),
                                                  Len(address_bits))
                     protocol == CASE Len(bits) = 12 -> "SIRC"
                                   [] Len(bits) = 15 -> "SIRC15"
                                   [] OTHER -> "SIRC20"
                 IN DecodedIR(protocol, address, _format_bytes(<<command>>),
                              Len(bits))

(***************************************************************************)
(* Manchester (bi-phase) demodulation shared by RC5 and RC6.               *)
(***************************************************************************)
Range(s) == {s[i] : i \in DOMAIN s}

\* the k-th smallest element of a non-empty list (sorted(data)[k - 1])
KthSmallest(data, k) ==
    CHOOSE v \in Range(data) :
        /\ Cardinality({i \in DOMAIN data : data[i] < v}) < k
        /\ Cardinality({i \in DOMAIN data : data[i] <= v}) >= k

\* int(statistics.median(data)) for positive integers: the middle element,
\* or the mean of the two middle elements cut to an integer
IntMedian(data) ==
    LET n == Len(data)
    IN IF n % 2 = 1 THEN KthSmallest(data, (n + 1) \div 2)
       ELSE (KthSmallest(data, n \div 2) + KthSmallest(data, n \div 2 + 1)) \div 2

_estimate_unit(samples, expected_unit) ==
    LET candidates == SelectSeq(samples, LAMBDA value : 200 <= value /\ value <= 2000)
    IN IF candidates = <<>> THEN expected_unit ELSE IntMedian(candidates)

\* int(round(duration / unit)): Python rounds an exact half to the even side
RoundDiv(duration, unit) ==
    LET q == duration \div unit
        r == duration % unit
    IN IF 2 * r < unit THEN q
       ELSE IF 2 * r > unit THEN q + 1
       ELSE IF q % 2 = 0 THEN q ELSE q + 1

\* max(1, round(duration / unit)), capped at 4
LevelCount(duration, unit) ==
    LET c == RoundDiv(duration, unit)
        count == IF c < 1 THEN 1 ELSE c
    IN IF count > 4 THEN 4 ELSE count

RECURSIVE _levels_from(_, _, _)
_levels_from(samples, unit, idx) ==
    IF idx >= Len(samples) THEN <<>>
    ELSE [k \in 1..LevelCount(samples[idx + 1], unit) |->
              IF idx % 2 = 0 THEN 1 ELSE 0]
         \o _levels_from(samples, unit, idx + 1)

_timings_to_levels(samples, expected_unit) ==
    _levels_from(samples, _estimate_unit(samples, expected_unit), 0)

_levels_to_bits(levels) ==
    LET pairs == Len(levels) \div 2
    IN IF \E idx \in 0..(pairs - 1) : levels[idx * 2 + 1] = levels[idx * 2 + 2]
       THEN <<>>
       ELSE [idx \in 1..pairs |->
                IF levels[idx * 2 - 1] = 1 /\ levels[idx * 2] = 0 THEN 1 ELSE 0]

\* one pass of `for offset in (0, 1)`: the decoded signal, or None to go on
_rc5_at_offset(levels, offset) ==
    LET bits == _levels_to_bits(Slice(levels, offset, Len(levels)))
    IN IF Len(bits) < 14 THEN None
       ELSE IF bits[1] # 1 \/ bits[2] # 1 THEN None
       ELSE LET address == _bits_to_int(Slice(bits, 3, 8), FALSE)
                cmd == _bits_to_int(Slice(bits, 8, 14), FALSE)
                command == IF bits[2] = 0 /\ (cmd \div 64) % 2 = 0
                           THEN cmd + 64 ELSE cmd
            IN DecodedIR("RC5", _format_bytes(<<address>>),
                         _format_bytes(<<command>>), 14)

_decode_rc5(samples) ==
    LET levels == _timings_to_levels(samples, 889)
    IN IF levels = <<>> THEN None
       ELSE LET first == _rc5_at_offset(levels, 0)
            IN IF first # None THEN first ELSE _rc5_at_offset(levels, 1)

_decode_rc6(samples) ==
    IF Len(samples) < 4 THEN None
    ELSE IF ~(_match_us(samples[1], 2666, 200) /\ _match_us(samples[2], 889, 120))
    THEN None
    ELSE LET levels == _timings_to_levels(Tail(Tail(samples)), 444)
         IN IF levels = <<>> \/ Len(levels) < 40 THEN None
            ELSE LET bits == _levels_to_bits(levels)
                 IN IF Len(bits) < 20 THEN None
                    ELSE IF bits[1] # 1 THEN None
                    ELSE IF _bits_to_int(Slice(bits, 1, 4), FALSE) # 0 THEN None
                    ELSE LET address == _bits_to_int(Slice(bits, 5, 13), FALSE)
                             command == _bits_to_int(Slice(bits, 13, 21), FALSE)
                         IN DecodedIR("RC6", _format_bytes(<<address>>),
                                      _format_bytes(<<command % 256>>), 20)

_decode_kaseikyo(samples) ==
    IF Len(samples) < 2 THEN None
    ELSE IF ~(_approx(samples[1], 3500, 30) /\ _approx(samples[2], 1750, 30))
    THEN None
    ELSE LET r == _decode_pulse_distance(Tail(Tail(samples)), 432, 432, 1296, 48, <<120>>)
         IN IF r.raised THEN Raised("TypeError")
            ELSE IF Insufficient(r, 48) THEN None
            ELSE LET values == BytesOf(r.bits, 48)
                 IN DecodedIR("Kaseikyo", _format_bytes(Slice(values, 0, 2)),
                              _format_bytes(Slice(values, 2, 4)), 48)

RECURSIVE _rcmm_loop(_, _, _)
_rcmm_loop(samples, index, symbols) ==
    IF ~(index + 1 < Len(samples)) THEN symbols
    ELSE LET pulse == samples[index + 1]
             space == samples[index + 2]
         IN IF ~_approx(pulse, 416, 50) THEN symbols
            ELSE IF _approx(space, 444, 40)
            THEN _rcmm_loop(samples, index + 2, Append(symbols, 0))
            ELSE IF _approx(space, 889, 35)
            THEN _rcmm_loop(samples, index + 2, Append(symbols, 1))
            ELSE IF _approx(space, 1333, 35)
            THEN _rcmm_loop(samples, index + 2, Append(symbols, 2))
            ELSE IF _approx(space, 1778, 35)
            THEN _rcmm_loop(samples, index + 2, Append(symbols, 3))
            ELSE symbols

\* bits.extend([(symbol >> 1) & 1, symbol & 1]) for each symbol
_rcmm_bits(symbols) ==
    [k \in 1..(2 * Len(symbols)) |->
        IF k % 2 = 1 THEN (symbols[(k + 1) \div 2] \div 2) % 2
        ELSE symbols[k \div 2] % 2]

_decode_rcmm(samples) ==
    IF Len(samples) < 4 THEN None
    ELSE IF ~(_approx(samples[1], 416, 40) /\ _approx(samples[2], 278, 50))
    THEN None
    ELSE LET symbols == _rcmm_loop(samples, 2, <<>>)
         IN IF Len(symbols) < 6 THEN None
            ELSE LET bits == _rcmm_bits(symbols)
                 IN IF Len(bits) < 16 THEN None
                    ELSE DecodedIR("RCMM",
                             _format_bytes(<<_bits_to_int(Slice(bits, 0, 8), FALSE)>>),
                             _format_bytes(<<_bits_to_int(Slice(bits, 8, 16), FALSE)>>),
                             Len(bits))

\* the call at line 277 passes five arguments: tolerance_us is not supplied
_decode_sharp(samples) ==
    IF Len(samples) < 2 THEN None
    ELSE IF ~(_approx(samples[1], 320, 50) /\ _approx(samples[2], 1600, 40))
    THEN None
    ELSE LET r == _decode_pulse_distance(Tail(Tail(samples)), 320, 320, 680, 15, <<>>)
         IN IF r.raised THEN Raised("TypeError")
            ELSE IF Insufficient(r, 15) THEN None
            ELSE LET address == _bits_to_int(Slice(r.bits, 0, 5), FALSE)
                     command == _bits_to_int(Slice(r.bits, 5, 13), FALSE)
                 IN DecodedIR("Sharp", _format_bytes(<<address>>),
                              _format_bytes(<<command>>), 15)

_decode_sanyo(samples) ==
    IF Len(samples) < 2 THEN None
    ELSE IF ~(_match_us(samples[1], 9000, 200) /\ _match_us(samples[2], 4500, 200))
    THEN None
    ELSE LET r == _decode_pulse_distance(Tail(Tail(samples)), 560, 560, 1690, 42, <<120>>)
         IN IF r.raised THEN Raised("TypeError")
            ELSE IF Insufficient(r, 42) THEN None
            ELSE LET values == BytesOf(r.bits, 40)
                 IN DecodedIR("Sanyo", _format_bytes(Slice(values, 0, 2)),
                              _format_bytes(Slice(values, 2, 4)), 42)

_decode_xmp(samples) ==
    IF Len(samples) < 2 THEN None
    ELSE IF ~(_approx(samples[1], 2090, 30) /\ _approx(samples[2], 780, 35))
    THEN None
    ELSE LET r == _decode_pulse_distance(Tail(Tail(samples)), 780, 390, 1170, 32, <<120>>)
         IN IF r.raised THEN Raised("TypeError")
            ELSE IF Insufficient(r, 32) THEN None
            ELSE LET values == BytesOf(r.bits, 32)
                 IN DecodedIR("XMP", _format_bytes(Slice(values, 0, 2)),
                              _format_bytes(Slice(values, 2, 4)), 32)

(***************************************************************************)
(* decode_raw_timings: normalise, then try the decoders in a fixed order.  *)
(***************************************************************************)
\* the order with NECext tried before NEC
DecoderOrderNecExtFirst ==
    <<"_decode_nec_ext", "_decode_nec", "_decode_samsung", "_decode_jvc",
      "_decode_sony", "_decode_rc5", "_decode_rc6", "_decode_kaseikyo",
      "_decode_rcmm", "_decode_sharp", "_decode_sanyo", "_decode_xmp">>

DecoderOrder ==
    <<"_decode_nec", "_decode_nec_ext", "_decode_samsung", "_decode_jvc",
      "_decode_sony", "_decode_rc5", "_decode_rc6", "_decode_kaseikyo",
      "_decode_rcmm", "_decode_sharp", "_decode_sanyo", "_decode_xmp">>

RunDecoder(decoder, timings) ==
    CASE decoder = "_decode_nec" -> _decode_nec(timings)
      [] decoder = "_decode_nec_ext" -> _decode_nec_ext(timings)
      [] decoder = "_decode_samsung" -> _decode_samsung(timings)
      [] decoder = "_decode_jvc" -> _decode_jvc(timings)
      [] decoder = "_decode_sony" -> _decode_sony(timings)
      [] decoder = "_decode_rc5" -> _decode_rc5(timings)
      [] decoder = "_decode_rc6" -> _decode_rc6(timings)
      [] decoder = "_decode_kaseikyo" -> _decode_kaseikyo(timings)
      [] decoder = "_decode_rcmm" -> _decode_rcmm(timings)
      [] decoder = "_decode_sharp" -> _decode_sharp(timings)
      [] decoder = "_decode_sanyo" -> _decode_sanyo(timings)
      [] decoder = "_decode_xmp" -> _decode_xmp(timings)

\* the for loop: the first decoder whose result is not None ends it, and so
\* does an exception
RECURSIVE _try_decoders(_, _)
_try_decoders(timings, idx) ==
    IF idx > Len(DecoderOrder) THEN None
    ELSE LET result == RunDecoder(DecoderOrder[idx], timings)
         IN IF result # None THEN result ELSE _try_decoders(timings, idx + 1)

\* a variant without the length test
decode_raw_timings_unguarded(samples) == _try_decoders(_normalize_timings(samples), 1)

decode_raw_timings(samples) ==
    LET timings == _normalize_timings(samples)
    IN IF Len(timings) < 6 THEN None ELSE _try_decoders(timings, 1)

(***************************************************************************)
(* Scancode codec of LircClient (lirc_client.py).                          *)
(***************************************************************************)
Char(text, i) == SubSeq(text, i, i)

LowerLetters == "abcdefghijklmnopqrstuvwxyz"
UpperLetters == "ABCDEFGHIJKLMNOPQRSTUVWXYZ"
LowerHexDigits == "0123456789abcdef"

\* position of a character in an alphabet, 0 when it is not there
IndexIn(alphabet, ch) ==
    IF \E i \in 1..Len(alphabet) : Char(alphabet, i) = ch
    THEN CHOOSE i \in 1..Len(alphabet) : Char(alphabet, i) = ch
    ELSE 0

LowerChar(ch) ==
    IF IndexIn(UpperLetters, ch) > 0
    THEN Char(LowerLetters, IndexIn(UpperLetters, ch))
    ELSE ch

RECURSIVE StrLower(_)
StrLower(text) ==
    IF text = "" THEN ""
    ELSE LowerChar(Char(text, 1)) \o StrLower(SubSeq(text, 2, Len(text)))

IsSpace(ch) == ch \in {" ", "\t", "\n", "\r"}

RECURSIVE StrStrip(_)
StrStrip(text) ==
    IF text = "" THEN ""
    ELSE IF IsSpace(Char(text, 1)) THEN StrStrip(SubSeq(text, 2, Len(text)))
    ELSE IF IsSpace(Char(text, Len(text))) THEN StrStrip(SubSeq(text, 1, Len(text) - 1))
    ELSE text

\* [0-9a-fA-F]
IsHexDigit(ch) == IndexIn(LowerHexDigits, LowerChar(ch)) > 0

HexDigitValue(ch) == IndexIn(LowerHexDigits, LowerChar(ch)) - 1

\* int(token, 16) for a token of hex digits
RECURSIVE HexToInt(_, _)
HexToInt(token, total) ==
    IF token = "" THEN total
    ELSE HexToInt(SubSeq(token, 2, Len(token)),
                  16 * total + HexDigitValue(Char(token, 1)))

\* _PROTOCOL_ALIASES.get(normalized, normalized)
_PROTOCOL_ALIASES(normalized) ==
    CASE normalized = "kaseikyo" -> "kaseikyo"
      [] normalized = "nec" -> "nec"
      [] normalized = "nec42" -> "nec"
      [] normalized = "necext" -> "necx"
      [] normalized = "nec_ext" -> "necx"
      [] normalized = "nec-x" -> "necx"
      [] normalized = "pioneer" -> "pioneer"
      [] normalized = "rc5" -> "rc5"
      [] normalized = "rc5x" -> "rc5x"
      [] normalized = "rc6" -> "rc6"
      [] normalized = "rca" -> "rca"
      [] normalized = "samsung32" -> "samsung32"
      [] normalized = "sirc" -> "sony"
      [] normalized = "sirc15" -> "sony15"
      [] normalized = "sirc20" -> "sony20"
      [] OTHER -> normalized

_normalize_protocol(protocol) == _PROTOCOL_ALIASES(StrLower(StrStrip(protocol)))

\* a variant that also takes a single hex digit as a byte
RECURSIVE _parse_hex_digits(_)
_parse_hex_digits(value) ==
    IF Len(value) < 1 THEN <<>>
    ELSE IF Len(value) >= 2 /\ IsHexDigit(Char(value, 1)) /\ IsHexDigit(Char(value, 2))
    THEN <<HexToInt(SubSeq(value, 1, 2), 0)>>
         \o _parse_hex_digits(SubSeq(value, 3, Len(value)))
    ELSE IF IsHexDigit(Char(value, 1))
    THEN <<HexToInt(SubSeq(value, 1, 1), 0)>>
         \o _parse_hex_digits(SubSeq(value, 2, Len(value)))
    ELSE _parse_hex_digits(SubSeq(value, 2, Len(value)))

\* re.findall(r"[0-9a-fA-F]{2}", value): pairs of hex digits, left to right,
\* not overlapping
RECURSIVE _parse_hex_bytes(_)
_parse_hex_bytes(value) ==
    IF Len(value) < 2 THEN <<>>
    ELSE IF IsHexDigit(Char(value, 1)) /\ IsHexDigit(Char(value, 2))
    THEN <<HexToInt(SubSeq(value, 1, 2), 0)>>
         \o _parse_hex_bytes(SubSeq(value, 3, Len(value)))
    ELSE _parse_hex_bytes(SubSeq(value, 2, Len(value)))

\* while len(trimmed) > 1 and trimmed[-1] == 0: trimmed.pop()
RECURSIVE _compact_bytes(_)
_compact_bytes(values) ==
    IF values = <<>> THEN <<>>
    ELSE IF Len(values) > 1 /\ values[Len(values)] = 0
    THEN _compact_bytes(DropLast(values))
    ELSE values

RECURSIVE _bytes_to_int_from(_, _)
_bytes_to_int_from(values, total) ==
    IF values = <<>> THEN total
    ELSE _bytes_to_int_from(Tail(values), 256 * total + values[1])

\* total = (total << 8) | value, for values of one byte
_bytes_to_int(values) == _bytes_to_int_from(values, 0)

(***************************************************************************)
(* A scancode is a Python int of up to 32 bits and more, beyond TLC's      *)
(* integers: it is held as its hexadecimal digits, most significant first  *)
(* (leading zeros allowed, <<>> is 0).                                     *)
(***************************************************************************)
RECURSIVE Pow16(_)
Pow16(n) == IF n = 0 THEN 1 ELSE 16 * Pow16(n - 1)

\* the n low hex digits of a small integer
IntNibbles(v, n) == [k \in 1..n |-> (v \div Pow16(n - k)) % 16]

RECURSIVE BigNorm(_)
BigNorm(digits) ==
    IF digits # <<>> /\ digits[1] = 0 THEN BigNorm(Tail(digits)) ELSE digits

\* (hi << (8 * shift_bytes)) | lo, for hi < 2^16 and lo < 2^(8 * shift_bytes)
BigShiftOr(hi, shift_bytes, lo) ==
    IntNibbles(hi, 4) \o IntNibbles(lo, 2 * shift_bytes)

\* digits padded on the left with zeros to at least n digits
BigPad(digits, n) ==
    IF Len(digits) >= n THEN digits
    ELSE [k \in 1..(n - Len(digits)) |-> 0] \o digits

\* (value >> (8 * k)) & 0xFF
BigByte(digits, k) ==
    LET d == BigPad(digits, 2 * k + 2)
    IN 16 * d[Len(d) - 2 * k - 1] + d[Len(d) - 2 * k]

\* value.bit_length()
BigBitLength(digits) ==
    LET d == BigNorm(digits)
    IN IF d = <<>> THEN 0
       ELSE 4 * (Len(d) - 1)
            + (IF d[1] >= 8 THEN 4 ELSE IF d[1] >= 4 THEN 3
               ELSE IF d[1] >= 2 THEN 2 ELSE 1)

\* the binary digits of the value, four per hex digit
BigBits(digits) ==
    [k \in 1..(4 * Len(digits)) |->
        (digits[(k + 3) \div 4] \div Pow2(3 - ((k - 1) % 4))) % 2]

\* value & 0x7F, a small integer
BigLow7(digits) ==
    LET b == BigBits(BigPad(digits, 2))
    IN _bits_msb_first(SubSeq(b, Len(b) - 6, Len(b)), 1, 0)

\* value >> 7
BigShiftRight7(digits) ==
    LET b == BigBits(BigPad(digits, 2))
        kept == SubSeq(b, 1, Len(b) - 7)
        pad == (4 - (Len(kept) % 4)) % 4
        bits4 == [k \in 1..pad |-> 0] \o kept
    IN [k \in 1..(Len(bits4) \div 4) |->
          _bits_msb_first(SubSeq(bits4, 4 * k - 3, 4 * k), 1, 0)]

RECURSIVE NibbleText(_)
NibbleText(digits) ==
    IF digits = <<>> THEN ""
    ELSE Char(LowerHexDigits, digits[1] + 1) \o NibbleText(Tail(digits))

\* f"{value:0{width}x}"
HexLower(digits, width) ==
    LET d == BigNorm(digits)
    IN NibbleText(BigPad(d, IF width < 1 THEN 1 ELSE width))

\* int(token, 16)
BigFromHex(token) == [i \in 1..Len(token) |-> HexDigitValue(Char(token, i))]

\* Optional[str]
NoScancode == [ok |-> FALSE, text |-> ""]
Scancode(text) == [ok |-> TRUE, text |-> text]

_build_scancode(protocol, address, command) ==
    LET addr_bytes == _compact_bytes(_parse_hex_bytes(address))
        cmd_bytes == _compact_bytes(_parse_hex_bytes(command))
        protocol_key == _normalize_protocol(protocol)
    IN IF addr_bytes = <<>> \/ cmd_bytes = <<>> THEN NoScancode
       ELSE IF protocol_key = "nec" /\ Len(addr_bytes) >= 1 /\ Len(cmd_bytes) >= 1
       THEN LET addr == addr_bytes[1]
                cmd == cmd_bytes[1]
            IN Scancode("0x" \o HexLower(
                     BigShiftOr(addr * 256 + XorFF(addr), 2,
                                cmd * 256 + XorFF(cmd)), 8))
       ELSE IF protocol_key \in {"necext", "nec_ext", "necx"}
       THEN Scancode("0x" \o HexLower(
                BigShiftOr(_bytes_to_int(Slice(addr_bytes, 0, 2)), 2,
                           _bytes_to_int(Slice(cmd_bytes, 0, 2))), 8))
       ELSE LET addr == _bytes_to_int(Slice(addr_bytes, 0, 2))
                cmd == _bytes_to_int(Slice(cmd_bytes, 0, 2))
                cmd_len == Len(Slice(cmd_bytes, 0, 2))
                bytes_used == Len(Slice(addr_bytes, 0, 2)) + cmd_len
            IN Scancode("0x" \o HexLower(BigShiftOr(addr, cmd_len, cmd),
                            (IF bytes_used < 1 THEN 1 ELSE bytes_used) * 2))

\* the longest run of hex digits at the start of text
RECURSIVE HexRun(_)
HexRun(text) ==
    IF text = "" \/ ~IsHexDigit(Char(text, 1)) THEN ""
    ELSE Char(text, 1) \o HexRun(SubSeq(text, 2, Len(text)))

\* Optional[int]
NoValue == [ok |-> FALSE, value |-> <<>>]
Value(v) == [ok |-> TRUE, value |-> v]

\* re.search(r"(?:0x)?([0-9a-fA-F]+)", value or ""): the leftmost position
\* where "0x" + hex digits, or failing that hex digits, begin
RECURSIVE _parse_scancode_value(_)
_parse_scancode_value(text) ==
    IF text = "" THEN NoValue
    ELSE IF Len(text) >= 3 /\ SubSeq(text, 1, 2) = "0x" /\ IsHexDigit(Char(text, 3))
    THEN Value(BigFromHex(HexRun(SubSeq(text, 3, Len(text)))))
    ELSE IF IsHexDigit(Char(text, 1))
    THEN Value(BigFromHex(HexRun(text)))
    ELSE _parse_scancode_value(SubSeq(text, 2, Len(text)))

\* length = 0 stands for length=None
_int_to_bytes(value, length) ==
    IF length # 0
    THEN [k \in 1..length |-> BigByte(value, length - k)]
    ELSE LET n == (BigBitLength(value) + 7) \div 8
             byte_count == IF n < 1 THEN 1 ELSE n
         IN [k \in 1..byte_count |-> BigByte(value, byte_count - k)]

\* LircClient._format_bytes
_format_bytes_lirc(values) ==
    IF values = <<>> THEN "00"
    ELSE JoinSpace([i \in 1..Len(values) |-> Hex02X(values[i])])

_format_int(value) == _format_bytes_lirc(_int_to_bytes(value, 0))

decode_scancode(protocol, scancode) ==
    LET value == _parse_scancode_value(scancode)
        normalized == _normalize_protocol(protocol)
    IN IF ~value.ok THEN <<"00", "00">>
       ELSE IF normalized = "nec"
       THEN LET bytes_ == _int_to_bytes(value.value, 4)
            IN <<_format_bytes_lirc(Slice(bytes_, 0, 1)),
                 _format_bytes_lirc(Slice(bytes_, 2, 3))>>
       ELSE IF normalized \in {"necx", "nec_ext", "necext"}
       THEN LET bytes_ == _int_to_bytes(value.value, 4)
            IN <<_format_bytes_lirc(Slice(bytes_, 0, 2)),
                 _format_bytes_lirc(Slice(bytes_, 2, 4))>>
       ELSE IF normalized \in {"sony", "sony15", "sony20"}
       THEN <<_format_int(BigShiftRight7(value.value)),
              _format_int(IntNibbles(BigLow7(value.value), 2))>>
       ELSE <<"00", _format_int(value.value)>>

(***************************************************************************)
(* Signal record codec (flipper_ir.py): FlipperIRSignal records written    *)
(* as blocks of "key: value" lines and read back.                          *)
(* A float is held as a count of 10^-7; float texts of the model carry at  *)
(* most seven decimals and no exponent.                                    *)
(***************************************************************************)
\* Optional[...]
Absent == [some |-> FALSE]
Some(v) == [some |-> TRUE, v |-> v]

FlipperIRSignal(name, signal_type, protocol, address, command, frequency, duty_cycle, data) ==
    [name |-> name, signal_type |-> signal_type, protocol |-> protocol,
     address |-> address, command |-> command, frequency |-> frequency,
     duty_cycle |-> duty_cycle, data |-> data]

DecimalDigits == "0123456789"

RECURSIVE NatText(_)
NatText(n) ==
    (IF n >= 10 THEN NatText(n \div 10) ELSE "") \o Char(DecimalDigits, (n % 10) + 1)

\* str(value) of an int
IntText(value) == IF value < 0 THEN "-" \o NatText(-value) ELSE NatText(value)

RECURSIVE ZeroPad(_, _)
ZeroPad(text, width) == IF Len(text) >= width THEN text ELSE ZeroPad("0" \o text, width)

\* f"{value:.6f}" of a non-negative float that is not half-way between two
\* texts
FormatFixed6(value) ==
    LET micro == (value + 5) \div 10
    IN NatText(micro \div 1000000) \o "." \o ZeroPad(NatText(micro % 1000000), 6)

RECURSIVE JoinWith(_, _)
JoinWith(sep, strs) ==
    IF strs = <<>> THEN ""
    ELSE IF Len(strs) = 1 THEN strs[1]
    ELSE strs[1] \o sep \o JoinWith(sep, Tail(strs))

\* the lines serialize_signals appends for one signal
_signal_lines(signal) ==
    <<"#", "name: " \o signal.name, "type: " \o signal.signal_type>>
    \o (IF signal.signal_type = "parsed"
        THEN (IF signal.protocol.some /\ signal.protocol.v # ""
              THEN <<"protocol: " \o signal.protocol.v>> ELSE <<>>)
             \o (IF signal.address.some /\ signal.address.v # ""
                 THEN <<"address: " \o signal.address.v>> ELSE <<>>)
             \o (IF signal.command.some /\ signal.command.v # ""
                 THEN <<"command: " \o signal.command.v>> ELSE <<>>)
        ELSE (IF signal.frequency.some
              THEN <<"frequency: " \o IntText(signal.frequency.v)>> ELSE <<>>)
             \o (IF signal.duty_cycle.some
                 THEN <<"duty_cycle: " \o FormatFixed6(signal.duty_cycle.v)>> ELSE <<>>)
             \o (IF signal.data.some /\ signal.data.v # <<>>
                 THEN <<"data: " \o JoinWith(" ",
                          [i \in 1..Len(signal.data.v) |-> IntText(signal.data.v[i])])>>
                 ELSE <<>>))

RECURSIVE _serialize_lines(_, _)
_serialize_lines(signals, first) ==
    IF signals = <<>> THEN <<>>
    ELSE (IF first THEN <<>> ELSE <<"">>)
         \o _signal_lines(signals[1])
         \o _serialize_lines(Tail(signals), FALSE)

\* HEADER_LINES is empty
serialize_signals(signals) == JoinWith("\n", _serialize_lines(signals, TRUE)) \o "\n"

\* index of the first ch in text, 0 when there is none
FindChar(text, ch) ==
    IF \E i \in 1..Len(text) : Char(text, i) = ch
    THEN CHOOSE i \in 1..Len(text) :
            Char(text, i) = ch /\ \A j \in 1..(i - 1) : Char(text, j) # ch
    ELSE 0

\* text.splitlines() for texts whose line boundaries are "\n"
RECURSIVE splitlines(_)
splitlines(text) ==
    IF text = "" THEN <<>>
    ELSE LET newline == FindChar(text, "\n")
         IN IF newline = 0 THEN <<text>>
            ELSE <<SubSeq(text, 1, newline - 1)>>
                 \o splitlines(SubSeq(text, newline + 1, Len(text)))

\* text.split(): the maximal runs of characters that are not whitespace
RECURSIVE _split_from(_, _)
_split_from(text, word) ==
    IF text = "" THEN (IF word = "" THEN <<>> ELSE <<word>>)
    ELSE IF IsSpace(Char(text, 1))
    THEN (IF word = "" THEN <<>> ELSE <<word>>)
         \o _split_from(SubSeq(text, 2, Len(text)), "")
    ELSE _split_from(SubSeq(text, 2, Len(text)), word \o Char(text, 1))

split(text) == _split_from(text, "")

\* text.startswith(prefix)
startswith(text, prefix) ==
    Len(text) >= Len(prefix) /\ SubSeq(text, 1, Len(prefix)) = prefix

AllIn(text, alphabet) == \A i \in 1..Len(text) : IndexIn(alphabet, Char(text, i)) > 0

\* the value of digits in a base up to 16
RECURSIVE DigitsValue(_, _, _)
DigitsValue(token, base, total) ==
    IF token = "" THEN total
    ELSE DigitsValue(SubSeq(token, 2, Len(token)), base,
                     base * total + HexDigitValue(Char(token, 1)))

\* the outcome of a conversion that may raise ValueError
ValueError == [ok |-> FALSE]
Converted(v) == [ok |-> TRUE, v |-> v]

Unsigned(text) ==
    IF text # "" /\ Char(text, 1) \in {"+", "-"} THEN SubSeq(text, 2, Len(text)) ELSE text

Signed(text, magnitude) ==
    IF text # "" /\ Char(text, 1) = "-" THEN -magnitude ELSE magnitude

\* int(text) for a text without surrounding whitespace and without "_"
ParseInt10(text) ==
    LET digits == Unsigned(text)
    IN IF digits # "" /\ AllIn(digits, DecimalDigits)
       THEN Converted(Signed(text, DigitsValue(digits, 10, 0)))
       ELSE ValueError

\* int(text, 0): a decimal literal without leading zeros, or 0x, 0o, 0b
\* followed by digits of that base (texts without "_")
ParseIntBase0(text) ==
    LET body == Unsigned(text)
        prefix == StrLower(Slice(body, 0, 2))
        rest == Slice(body, 2, Len(body))
    IN IF prefix \in {"0x", "0o", "0b"}
       THEN LET base == IF prefix = "0x" THEN 16 ELSE IF prefix = "0o" THEN 8 ELSE 2
                alphabet == SubSeq(LowerHexDigits, 1, base)
            IN IF rest # "" /\ AllIn(StrLower(rest), alphabet)
               THEN Converted(Signed(text, DigitsValue(rest, base, 0)))
               ELSE ValueError
       ELSE IF body # "" /\ AllIn(body, DecimalDigits)
               /\ (Char(body, 1) # "0" \/ AllIn(body, "0"))
       THEN Converted(Signed(text, DigitsValue(body, 10, 0)))
       ELSE ValueError

\* float(text) for digits with an optional fraction of up to seven digits
ParseFloat(text) ==
    LET body == Unsigned(text)
        dot == FindChar(body, ".")
        whole == IF dot = 0 THEN body ELSE SubSeq(body, 1, dot - 1)
        fraction == IF dot = 0 THEN "" ELSE SubSeq(body, dot + 1, Len(body))
        padded == SubSeq(fraction \o "0000000", 1, 7)
    IN IF /\ AllIn(whole, DecimalDigits)
          /\ AllIn(fraction, DecimalDigits)
          /\ whole \o fraction # ""
       THEN Converted(Signed(text, 10000000 * DigitsValue(whole, 10, 0)
                                   + DigitsValue(padded, 10, 0)))
       ELSE ValueError

ACCEPTED_FILETYPES == {"Filetype: IR library file", "Filetype: IR signals file"}

\* payload.get(key, default) of a dict held as a function on its keys
DictGet(payload, key, default) ==
    IF key \in DOMAIN payload THEN payload[key] ELSE default

EmptyDict == [k \in {} |-> ""]

DictSet(payload, key, value) ==
    [k \in (DOMAIN payload) \cup {key} |-> IF k = key THEN value ELSE payload[k]]

_optional_str(payload, key) ==
    IF key \notin DOMAIN payload THEN Absent
    ELSE IF StrStrip(payload[key]) = "" THEN Absent
    ELSE Some(StrStrip(payload[key]))

\* data.append(int(value, 0)), a ValueError skips the token
RECURSIVE _data_values(_)
_data_values(tokens) ==
    IF tokens = <<>> THEN <<>>
    ELSE (IF ParseIntBase0(tokens[1]).ok THEN <<ParseIntBase0(tokens[1]).v>> ELSE <<>>)
         \o _data_values(Tail(tokens))

_build_signal(payload) ==
    LET signal_type == DictGet(payload, "type", "parsed")
        data == IF signal_type # "parsed" /\ "data" \in DOMAIN payload
                THEN Some(_data_values(split(payload["data"])))
                ELSE Absent
        duty_cycle == IF "duty_cycle" \in DOMAIN payload
                         /\ ParseFloat(payload["duty_cycle"]).ok
                      THEN Some(ParseFloat(payload["duty_cycle"]).v)
                      ELSE Absent
        frequency == IF "frequency" \in DOMAIN payload
                        /\ ParseInt10(payload["frequency"]).ok
                     THEN Some(ParseInt10(payload["frequency"]).v)
                     ELSE Absent
    IN FlipperIRSignal(DictGet(payload, "name", "Unknown"), signal_type,
                       _optional_str(payload, "protocol"),
                       _optional_str(payload, "address"),
                       _optional_str(payload, "command"),
                       frequency, duty_cycle, data)

\* the loop of parse_signals over the lines, then the trailing flush
RECURSIVE _parse_lines(_, _, _)
_parse_lines(lines, signals, current) ==
    IF lines = <<>>
    THEN (IF DOMAIN current # {} THEN Append(signals, _build_signal(current))
          ELSE signals)
    ELSE LET stripped == StrStrip(lines[1])
             colon == FindChar(stripped, ":")
         IN IF stripped = "" THEN _parse_lines(Tail(lines), signals, current)
            ELSE IF stripped \in ACCEPTED_FILETYPES \/ stripped = "Version: 1"
            THEN _parse_lines(Tail(lines), signals, current)
            ELSE IF startswith(stripped, "#")
            THEN (IF DOMAIN current # {}
                  THEN _parse_lines(Tail(lines),
                                    Append(signals, _build_signal(current)), EmptyDict)
                  ELSE _parse_lines(Tail(lines), signals, current))
            ELSE IF colon = 0 THEN _parse_lines(Tail(lines), signals, current)
            ELSE _parse_lines(Tail(lines), signals,
                     DictSet(current,
                             StrStrip(SubSeq(stripped, 1, colon - 1)),
                             StrStrip(SubSeq(stripped, colon + 1, Len(stripped)))))

parse_signals(text) == _parse_lines(splitlines(text), <<>>, EmptyDict)

\* FlipperIRLibrarySignal
FlipperIRLibrarySignal(model, signal) == [model |-> model, signal |-> signal]

\* re.match(r"model:\s*(.+)$", comment, re.IGNORECASE): the prefix in any
\* letter case and at least one more character; group(1).strip() is what
\* follows the prefix, stripped
_parse_model_comment(comment) ==
    IF Len(comment) > 6 /\ StrLower(SubSeq(comment, 1, 6)) = "model:"
    THEN StrStrip(SubSeq(comment, 7, Len(comment)))
    ELSE IF StrStrip(comment) = "" THEN "Unknown" ELSE StrStrip(comment)

\* text.lstrip("#")
RECURSIVE lstrip_hash(_)
lstrip_hash(text) ==
    IF startswith(text, "#") THEN lstrip_hash(SubSeq(text, 2, Len(text))) ELSE text

\* while comment.startswith("#"): comment = comment[1:].strip()
RECURSIVE _strip_hashes(_)
_strip_hashes(comment) ==
    IF startswith(comment, "#")
    THEN _strip_hashes(StrStrip(SubSeq(comment, 2, Len(comment))))
    ELSE comment

\* a variant of the loop below that names the model before it flushes
RECURSIVE _parse_library_lines_early(_, _, _, _)
_parse_library_lines_early(lines, signals, current, current_model) ==
    IF lines = <<>>
    THEN (IF DOMAIN current # {}
          THEN Append(signals, FlipperIRLibrarySignal(current_model, _build_signal(current)))
          ELSE signals)
    ELSE LET stripped == StrStrip(lines[1])
             colon == FindChar(stripped, ":")
             comment == _strip_hashes(StrStrip(lstrip_hash(stripped)))
             model == IF comment # "" THEN _parse_model_comment(comment)
                      ELSE current_model
         IN IF stripped = ""
            THEN _parse_library_lines_early(Tail(lines), signals, current, current_model)
            ELSE IF stripped \in ACCEPTED_FILETYPES \/ stripped = "Version: 1"
            THEN _parse_library_lines_early(Tail(lines), signals, current, current_model)
            ELSE IF startswith(stripped, "#")
            THEN (IF DOMAIN current # {}
                  THEN _parse_library_lines_early(Tail(lines),
                           Append(signals, FlipperIRLibrarySignal(model, _build_signal(current))),
                           EmptyDict, model)
                  ELSE _parse_library_lines_early(Tail(lines), signals, current, model))
            ELSE IF colon = 0
            THEN _parse_library_lines_early(Tail(lines), signals, current, current_model)
            ELSE _parse_library_lines_early(Tail(lines), signals,
                     DictSet(current,
                             StrStrip(SubSeq(stripped, 1, colon - 1)),
                             StrStrip(SubSeq(stripped, colon + 1, Len(stripped)))),
                     current_model)

\* the loop of parse_library_signals over the lines, then the trailing flush
RECURSIVE _parse_library_lines(_, _, _, _)
_parse_library_lines(lines, signals, current, current_model) ==
    IF lines = <<>>
    THEN (IF DOMAIN current # {}
          THEN Append(signals, FlipperIRLibrarySignal(current_model, _build_signal(current)))
          ELSE signals)
    ELSE LET stripped == StrStrip(lines[1])
             colon == FindChar(stripped, ":")
             comment == _strip_hashes(StrStrip(lstrip_hash(stripped)))
             model == IF comment # "" THEN _parse_model_comment(comment)
                      ELSE current_model
         IN IF stripped = ""
            THEN _parse_library_lines(Tail(lines), signals, current, current_model)
            ELSE IF stripped \in ACCEPTED_FILETYPES \/ stripped = "Version: 1"
            THEN _parse_library_lines(Tail(lines), signals, current, current_model)
            ELSE IF startswith(stripped, "#")
            THEN (IF DOMAIN current # {}
                  THEN _parse_library_lines(Tail(lines),
                           Append(signals,
                                  FlipperIRLibrarySignal(current_model, _build_signal(current))),
                           EmptyDict, model)
                  ELSE _parse_library_lines(Tail(lines), signals, current, model))
            ELSE IF colon = 0
            THEN _parse_library_lines(Tail(lines), signals, current, current_model)
            ELSE _parse_library_lines(Tail(lines), signals,
                     DictSet(current,
                             StrStrip(SubSeq(stripped, 1, colon - 1)),
                             StrStrip(SubSeq(stripped, colon + 1, Len(stripped)))),
                     current_model)

parse_library_signals(text) ==
    _parse_library_lines(splitlines(text), <<>>, EmptyDict, "Unknown")

(***************************************************************************)
(* Capture aggregation of the Learn screen (ui/app.py, IRScreen).          *)
(* A capture is the dict capture_signal returned; its field data stands    *)
(* for the first non-empty of raw_burst, raw_data and data, frequency for  *)
(* raw_frequency or frequency, duty_cycle for raw_duty_cycle or            *)
(* duty_cycle.                                                             *)
(***************************************************************************)
CaptureDict(name, signal_type, protocol, address, command, source, frequency, duty_cycle, data) ==
    [name |-> name, signal_type |-> signal_type, protocol |-> protocol,
     address |-> address, command |-> command, source |-> source,
     frequency |-> frequency, duty_cycle |-> duty_cycle, data |-> data]

\* Optional[dict]
NoCapture == [name |-> "<None>"]

\* _selected_capture has not run since the session last changed
NotCalled == [name |-> "<not called>"]

\* int(a / b): the quotient cut towards zero
TruncDiv(a, b) == IF a >= 0 THEN a \div b ELSE -((-a) \div b)

RECURSIVE SumSeq(_)
SumSeq(values) == IF values = <<>> THEN 0 ELSE values[1] + SumSeq(Tail(values))

Min(S) == CHOOSE x \in S : \A y \in S : x <= y

\* a variant that adds the two middle values and does not halve them
_median_int_sum(values) ==
    IF values = <<>> THEN 0
    ELSE LET mid == Len(values) \div 2
         IN IF Len(values) % 2 = 1 THEN KthSmallest(values, mid + 1)
            ELSE KthSmallest(values, mid) + KthSmallest(values, mid + 1)

\* ordered = sorted(values); ordered[mid] is the (mid + 1)-th smallest
_median_int(values) ==
    IF values = <<>> THEN 0
    ELSE LET mid == Len(values) \div 2
         IN IF Len(values) % 2 = 1 THEN KthSmallest(values, mid + 1)
            ELSE TruncDiv(KthSmallest(values, mid) + KthSmallest(values, mid + 1), 2)

\* an entry is the pair (capture, data)
Entry(capture, data) == [capture |-> capture, data |-> data]

\* raw_entries of _aggregate_capture and _aggregate_detail_line
_raw_entries(captures) ==
    LET raw == SelectSeq(captures, LAMBDA capture : capture.data # <<>>)
    IN [i \in 1..Len(raw) |-> Entry(raw[i], raw[i].data)]

Max(S) == CHOOSE x \in S : \A y \in S : x >= y

\* a variant that keeps the longest samples instead of cutting to the shortest
_trim_raw_entries_longest(entries) ==
    LET lengths == {Len(entries[i].data) : i \in {j \in 1..Len(entries) : entries[j].data # <<>>}}
    IN IF lengths = {} THEN <<>>
       ELSE LET max_len == Max(lengths)
                kept == SelectSeq(entries, LAMBDA entry : Len(entry.data) >= max_len)
            IN [i \in 1..Len(kept) |->
                   Entry(kept[i].capture, SubSeq(kept[i].data, 1, max_len))]

_trim_raw_entries(entries) ==
    LET lengths == {Len(entries[i].data) : i \in {j \in 1..Len(entries) : entries[j].data # <<>>}}
    IN IF lengths = {} THEN <<>>
       ELSE LET min_len == Min(lengths)
                kept == SelectSeq(entries, LAMBDA entry : Len(entry.data) >= min_len)
            IN [i \in 1..Len(kept) |->
                   Entry(kept[i].capture, SubSeq(kept[i].data, 1, min_len))]

\* Optional[list[int]]
NoBaseline == [some |-> FALSE]

_aggregate_raw_baseline(entries, mode) ==
    IF entries = <<>> THEN NoBaseline
    ELSE LET samples == [i \in 1..Len(entries) |-> entries[i].data]
             length == Len(samples[1])
             column(idx) == [row \in 1..Len(samples) |-> samples[row][idx]]
         IN Some([idx \in 1..length |->
                    IF mode = "Mean"
                    THEN TruncDiv(SumSeq(column(idx)), Len(samples))
                    ELSE _median_int(column(idx))])

\* sum(abs(a - b) for a, b in zip(data, baseline))
_score(data, baseline) ==
    LET n == IF Len(data) < Len(baseline) THEN Len(data) ELSE Len(baseline)
    IN SumSeq([i \in 1..n |-> Abs(data[i] - baseline[i])])

\* a variant that keeps the last entry with the smallest score
_select_best_raw_last(entries, baseline) ==
    IF entries = <<>> \/ baseline = <<>> THEN NoCapture
    ELSE LET best == CHOOSE i \in 1..Len(entries) :
                        /\ \A j \in 1..Len(entries) :
                              _score(entries[i].data, baseline) <= _score(entries[j].data, baseline)
                        /\ \A j \in (i + 1)..Len(entries) :
                              _score(entries[j].data, baseline) > _score(entries[i].data, baseline)
         IN entries[best].capture

\* the first entry with the smallest score (score < best_score is strict)
_select_best_raw(entries, baseline) ==
    IF entries = <<>> \/ baseline = <<>> THEN NoCapture
    ELSE LET best == CHOOSE i \in 1..Len(entries) :
                        /\ \A j \in 1..Len(entries) :
                              _score(entries[i].data, baseline) <= _score(entries[j].data, baseline)
                        /\ \A j \in 1..(i - 1) :
                              _score(entries[j].data, baseline) > _score(entries[i].data, baseline)
         IN entries[best].capture

\* the values that are not None, each once, in order of first occurrence
RECURSIVE _count_keys(_, _)
_count_keys(values, seen) ==
    IF values = <<>> THEN seen
    ELSE IF ~values[1].some \/ (\E i \in 1..Len(seen) : seen[i] = values[1])
    THEN _count_keys(Tail(values), seen)
    ELSE _count_keys(Tail(values), Append(seen, values[1]))

\* max(counts.items(), key=count)[0]: the first key with the largest count
_majority_value(values) ==
    LET keys == _count_keys(values, <<>>)
        count(key) == Cardinality({i \in 1..Len(values) : values[i] = key})
    IN IF keys = <<>> THEN Absent
       ELSE keys[CHOOSE i \in 1..Len(keys) :
                    /\ \A j \in 1..Len(keys) : count(keys[i]) >= count(keys[j])
                    /\ \A j \in 1..(i - 1) : count(keys[j]) < count(keys[i])]

\* a frequency of 0 is dropped like None ("if value")
_select_carrier(entries) ==
    LET frequencies == [i \in 1..Len(entries) |->
                          IF entries[i].capture.frequency.some
                             /\ entries[i].capture.frequency.v # 0
                          THEN entries[i].capture.frequency ELSE Absent]
        duties == [i \in 1..Len(entries) |-> entries[i].capture.duty_cycle]
    IN <<_majority_value(frequencies), _majority_value(duties)>>

_aggregate_parsed(captures) ==
    LET parsed == SelectSeq(captures, LAMBDA capture : capture.signal_type # "raw")
    IN IF parsed = <<>> THEN NoCapture
       ELSE CaptureDict("Aggregate Parsed", "parsed",
                _majority_value([i \in 1..Len(parsed) |-> parsed[i].protocol]),
                _majority_value([i \in 1..Len(parsed) |-> parsed[i].address]),
                _majority_value([i \in 1..Len(parsed) |-> parsed[i].command]),
                "aggregate", Absent, Absent, <<>>)

_aggregate_capture(captures, mode) ==
    IF captures = <<>> THEN NoCapture
    ELSE LET raw_entries == _raw_entries(captures)
             trimmed == _trim_raw_entries(raw_entries)
             baseline == _aggregate_raw_baseline(trimmed, mode)
             best == _select_best_raw(trimmed, baseline.v)
             carrier == _select_carrier(raw_entries)
         IN IF raw_entries # <<>>
            THEN IF ~baseline.some THEN NoCapture
                 ELSE IF mode = "Best" /\ best # NoCapture THEN best
                 ELSE CaptureDict("Aggregate " \o mode, "raw", Some("RAW"), Absent,
                                  Absent, "aggregate", carrier[1], carrier[2],
                                  baseline.v)
            ELSE _aggregate_parsed(captures)

\* the text of the detail line, by its kind: the deviation and accuracy
\* figures are not modelled
_aggregate_detail_line(captures) ==
    IF Len(_raw_entries(captures)) < 2
    THEN "Aggregate requires at least 2 raw captures."
    ELSE "Aggregate deviation"

(***************************************************************************)
(* Burst segmentation of a raw capture (LircClient._split_bursts).         *)
(***************************************************************************)
\* what the loop does on closing the accumulator: an odd-length one loses
\* its last value, an empty one adds no burst
_close_burst(bursts, current) ==
    LET even == IF Len(current) % 2 = 1 THEN DropLast(current) ELSE current
    IN IF even # <<>> THEN Append(bursts, even) ELSE bursts

\* the for loop, one burst at a time: a value above 1,000,000 closes the
\* accumulator unless the accumulator is empty, and then the value is
\* itself accumulated; so the accumulator runs up to the first such value
\* behind its first entry
RECURSIVE _split_loop(_, _)
_split_loop(data, bursts) ==
    IF data = <<>> THEN bursts
    ELSE LET markers == {k \in 2..Len(data) : data[k] > 1000000}
         IN IF markers = {} THEN _close_burst(bursts, data)
            ELSE LET k == Min(markers)
                 IN _split_loop(SubSeq(data, k + 1, Len(data)),
                                _close_burst(bursts, SubSeq(data, 1, k - 1)))

_split_bursts(data) ==
    IF data = <<>> THEN <<>> ELSE _split_loop(data, <<>>)

(***************************************************************************)
(* The best-burst decode of a capture (LircClient._decode_best_burst).     *)
(* Its result is the pair (decoded, burst); an exception of the decoder    *)
(* leaves the function, and is held in decoded with an empty burst.        *)
(***************************************************************************)
BestBurst(decoded, burst) == [decoded |-> decoded, burst |-> burst]

\* max(bursts, key=len): the first burst of the greatest length
_longest_burst(bursts) ==
    LET top == Max({Len(bursts[i]) : i \in 1..Len(bursts)})
        first == Min({i \in 1..Len(bursts) : Len(bursts[i]) = top})
    IN bursts[first]

\* the for loop of lines 496-502
RECURSIVE _best_loop(_, _, _, _)
_best_loop(bursts, best, decoded_best, decoded_burst) ==
    IF bursts = <<>>
    THEN (IF decoded_best # None THEN BestBurst(decoded_best, decoded_burst)
          ELSE BestBurst(None, best))
    ELSE LET burst == bursts[1]
         IN IF Len(burst) < 60
            THEN _best_loop(Tail(bursts), best, decoded_best, decoded_burst)
            ELSE LET decoded == decode_raw_timings(burst)
                 IN IF decoded.kind = "raise" THEN BestBurst(decoded, <<>>)
                    ELSE IF decoded # None /\ Len(burst) > Len(decoded_burst)
                    THEN _best_loop(Tail(bursts), best, decoded, burst)
                    ELSE _best_loop(Tail(bursts), best, decoded_best,
                                    decoded_burst)

_decode_best_burst(data) ==
    LET bursts == _split_bursts(data)
    IN IF bursts = <<>> THEN BestBurst(None, data)
       ELSE _best_loop(bursts, _longest_burst(bursts), None, <<>>)

(***************************************************************************)
(* The raw capture routine (LircClient._capture_raw_signal): the output    *)
(* lines of the receiver process are read one by one, until the process    *)
(* ends its output or a stop is requested.                                 *)
(***************************************************************************)
IsDigit(ch) == IndexIn(DecimalDigits, ch) > 0

\* text contains sub
Contains(text, sub) ==
    \E i \in 1..(Len(text) - Len(sub) + 1) : SubSeq(text, i, i + Len(sub) - 1) = sub

\* the last index of the run of digits that begins at index i
DigitRunEnd(text, i) ==
    CHOOSE j \in i..Len(text) :
        /\ \A k \in i..j : IsDigit(Char(text, k))
        /\ j = Len(text) \/ ~IsDigit(Char(text, j + 1))

\* re.search(r"(\d+)", text): the first run of digits, "" for no match
SearchDigits(text) ==
    LET starts == {i \in 1..Len(text) : IsDigit(Char(text, i))}
    IN IF starts = {} THEN ""
       ELSE SubSeq(text, Min(starts), DigitRunEnd(text, Min(starts)))

\* re.search(r"([0-9]*\.?[0-9]+)", text): digits, then possibly a point
\* followed by digits; or a point followed by digits; "" for no match
SearchDecimal(text) ==
    LET starts == {i \in 1..Len(text) :
                      \/ IsDigit(Char(text, i))
                      \/ /\ Char(text, i) = "."
                         /\ i < Len(text)
                         /\ IsDigit(Char(text, i + 1))}
    IN IF starts = {} THEN ""
       ELSE LET i == Min(starts)
                whole == IF IsDigit(Char(text, i)) THEN DigitRunEnd(text, i) ELSE i - 1
            IN IF /\ whole + 2 <= Len(text)
                  /\ Char(text, whole + 1) = "."
                  /\ IsDigit(Char(text, whole + 2))
               THEN SubSeq(text, i, DigitRunEnd(text, whole + 2))
               ELSE SubSeq(text, i, whole)

\* [int(token) for token in re.findall(r"[+-]\d+", text)]
RECURSIVE SignedTokens(_)
SignedTokens(text) ==
    LET starts == {i \in 1..(Len(text) - 1) :
                      Char(text, i) \in {"+", "-"} /\ IsDigit(Char(text, i + 1))}
    IN IF starts = {} THEN <<>>
       ELSE LET i == Min(starts)
                j == DigitRunEnd(text, i + 1)
            IN <<ParseInt10(SubSeq(text, i, j)).v>>
               \o SignedTokens(SubSeq(text, j + 1, Len(text)))

\* re.search(r"(pulse|space)\s+(\d+)", lower): <<word, digits>>, <<>> for
\* no match
SearchPulseSpace(lower) ==
    LET blanks(i) == CHOOSE j \in (i + 4)..Len(lower) :
                        /\ \A k \in (i + 5)..j : IsSpace(Char(lower, k))
                        /\ j = Len(lower) \/ ~IsSpace(Char(lower, j + 1))
        starts == {i \in 1..(Len(lower) - 4) :
                      /\ SubSeq(lower, i, i + 4) \in {"pulse", "space"}
                      /\ blanks(i) > i + 4
                      /\ blanks(i) < Len(lower)
                      /\ IsDigit(Char(lower, blanks(i) + 1))}
    IN IF starts = {} THEN <<>>
       ELSE LET i == Min(starts)
            IN <<SubSeq(lower, i, i + 4),
                 SubSeq(lower, blanks(i) + 1, DigitRunEnd(lower, blanks(i) + 1))>>

\* the timings a data line adds to signed_data (lines 439-451)
_line_timings(stripped) ==
    LET tokens == SignedTokens(stripped)
        match == SearchPulseSpace(StrLower(stripped))
        value_match == SearchDigits(stripped)
    IN IF tokens # <<>> THEN tokens
       ELSE IF match # <<>>
       THEN (IF match[1] = "pulse" THEN <<ParseInt10(match[2]).v>>
             ELSE <<-ParseInt10(match[2]).v>>)
       ELSE IF value_match # "" THEN <<ParseInt10(value_match).v>>
       ELSE <<>>

\* the local variables of the loop
CaptureLocals(signed_data, frequency, duty_cycle, raw_lines) ==
    [signed_data |-> signed_data, frequency |-> frequency,
     duty_cycle |-> duty_cycle, raw_lines |-> raw_lines, raised |-> ""]

\* the result dict
RawResult(device, locals, error) ==
    [kind |-> "dict", device |-> device, frequency |-> locals.frequency,
     duty_cycle |-> locals.duty_cycle,
     data |-> _normalize_signed_timings(locals.signed_data),
     signed_data |-> locals.signed_data, raw_lines |-> locals.raw_lines,
     has_data |-> _normalize_signed_timings(locals.signed_data) # <<>>,
     error |-> error]

\* an exception that left the routine
RawRaised(exc) == [kind |-> "raise", exc |-> exc]

\* the for loop of lines 409-451 from line idx on; stop_at is the pass at
\* whose top a stop is found requested or the deadline passed (0: never).
\* The name data is local to the routine and bound only behind the loop
\* (line 453), so reading it at lines 418 and 436 raises UnboundLocalError.
RECURSIVE _capture_lines(_, _, _, _)
_capture_lines(lines, idx, stop_at, locals) ==
    IF idx > Len(lines) \/ idx = stop_at THEN locals
    ELSE LET stripped == StrStrip(lines[idx])
             lower == StrLower(stripped)
             seen == IF stripped # ""
                     THEN [locals EXCEPT !.raw_lines = Append(@, stripped)]
                     ELSE locals
         IN IF stripped = "" THEN [seen EXCEPT !.raised = "UnboundLocalError"]
            ELSE IF startswith(lower, "carrier")
            THEN _capture_lines(lines, idx + 1, stop_at,
                     IF SearchDigits(stripped) # ""
                     THEN [seen EXCEPT !.frequency =
                                          Some(ParseInt10(SearchDigits(stripped)).v)]
                     ELSE seen)
            ELSE IF startswith(lower, "duty")
            THEN _capture_lines(lines, idx + 1, stop_at,
                     IF SearchDecimal(stripped) # ""
                     THEN [seen EXCEPT !.duty_cycle =
                                          Some(ParseFloat(SearchDecimal(stripped)).v)]
                     ELSE seen)
            ELSE IF Contains(lower, "timeout")
            THEN [seen EXCEPT !.raised = "UnboundLocalError"]
            ELSE _capture_lines(lines, idx + 1, stop_at,
                     [seen EXCEPT !.signed_data = @ \o _line_timings(stripped)])

\* device is "" when _select_rx_device finds none
_capture_raw_signal(device, lines, stop_at) ==
    IF device = ""
    THEN RawResult("", CaptureLocals(<<>>, Absent, Absent, <<>>), "rx device not found")
    ELSE LET locals == _capture_lines(lines, 1, stop_at,
                                      CaptureLocals(<<>>, Absent, Absent, <<>>))
         IN IF locals.raised # "" THEN RawRaised(locals.raised)
            ELSE RawResult(device, locals, "")

(***************************************************************************)
(* SpecScancode: a parsed signal (protocol, address, command) is packed    *)
(* into a scancode as send_parsed does, and the scancode is decoded again  *)
(* as a received one is.                                                   *)
(***************************************************************************)
NumScBytes == 3

ScByteList == <<18, 0, 171, 255, 52, 1>>

ScBytes == {ScByteList[i] : i \in {j \in 1..NumScBytes : j <= Len(ScByteList)}}

\* address and command texts: one or two hex bytes, and texts without any
\* pair of hex digits
WellFormedHex ==
    {Hex02X(x) : x \in ScBytes}
    \cup {Hex02X(x) \o " " \o Hex02X(y) : x \in ScBytes, y \in ScBytes}

HexTexts == WellFormedHex \cup {"", "zz", "1 2"}

ProtocolNames ==
    {"nec", "NEC", " nec ", "necx", "NECext", "nec_ext", "sony", "sony15",
     "SIRC20", "rc5", "xyz"}

NormIdle ==
    /\ norm_impl = "none"
    /\ norm_input = <<>>
    /\ norm_output = <<>>
    /\ norm_again = <<>>
    /\ norm_pc = "idle"

DecIdle ==
    /\ cap_frame = [profile |-> "none"]
    /\ cap_samples = <<>>
    /\ dec_result = None
    /\ dec_pc = "idle"

FlIdle ==
    /\ fl_signals = <<>>
    /\ fl_text = ""
    /\ fl_parsed = <<>>
    /\ fl_pc = "idle"

AgIdle ==
    /\ ag_captures = <<>>
    /\ ag_selection = 0
    /\ ag_mode = "idle"
    /\ ag_detail = ""
    /\ ag_aggregate = NotCalled
    /\ ag_selected = NotCalled

BuIdle ==
    /\ bu_data = <<>>
    /\ bu_bursts = <<>>
    /\ bu_pc = "idle"

BbIdle ==
    /\ bb_data = <<>>
    /\ bb_result = NotCalled
    /\ bb_pc = "idle"

CrIdle ==
    /\ cr_input = [device |-> "", lines |-> <<>>, stop_at |-> 0]
    /\ cr_result = NotCalled
    /\ cr_pc = "idle"

LsIdle ==
    /\ ls_screen = ""
    /\ ls_threads = <<>>
    /\ ls_stop = FALSE
    /\ ls_captures = 0
    /\ ls_queue = 0
    /\ ls_event = "idle"

LibIdle ==
    /\ lib_files = {}
    /\ lib_dirs = {}
    /\ lib_call = [op |-> "idle"]

ScIdle ==
    /\ sc_protocol = ""
    /\ sc_address = ""
    /\ sc_command = ""
    /\ sc_scancode = NoScancode
    /\ sc_decoded = <<"", "">>
    /\ sc_pc = "idle"

\* scancode texts as a receiver reports them: hexadecimal numbers with and
\* without the 0x prefix, and texts that are not such numbers
ScancodeTexts ==
    {"0x12", "12", "0x00ff00ff", "0x0012ab12", "AB", "0x1a2b",
     "", "zz", "0x", "0xzz", "12zz", "zz12", "0X12", "1 2", "-1", "x12"}

\* either a parsed signal is about to be sent, or a scancode has been
\* received together with its protocol name
InitScancode ==
    /\ LibIdle
    /\ LsIdle
    /\ CrIdle
    /\ BbIdle
    /\ BuIdle
    /\ AgIdle
    /\ NormIdle
    /\ DecIdle
    /\ FlIdle
    /\ sc_protocol \in ProtocolNames
    /\ sc_decoded = <<"", "">>
    /\ \/ /\ sc_address \in HexTexts
          /\ sc_command \in HexTexts
          /\ sc_scancode = NoScancode
          /\ sc_pc = "parsed"
       \/ /\ sc_address = ""
          /\ sc_command = ""
          /\ sc_scancode \in {Scancode(t) : t \in ScancodeTexts}
          /\ sc_pc = "received"

\* send_parsed, lines 68-69: the protocol is normalised, then packed
BuildScancode ==
    /\ sc_pc = "parsed"
    /\ sc_scancode' = _build_scancode(_normalize_protocol(sc_protocol),
                                      sc_address, sc_command)
    /\ sc_pc' = "built"
    /\ UNCHANGED <<sc_protocol, sc_address, sc_command, sc_decoded, normVars, decVars, flVars, agVars, buVars, bbVars, crVars, lsVars, libVars>>

DecodeScancode ==
    /\ sc_pc = "built"
    /\ sc_scancode.ok
    /\ sc_decoded' = decode_scancode(sc_protocol, sc_scancode.text)
    /\ sc_pc' = "decoded"
    /\ UNCHANGED <<sc_protocol, sc_address, sc_command, sc_scancode, normVars, decVars, flVars, agVars, buVars, bbVars, crVars, lsVars, libVars>>

\* the receive path, line 229: decode_scancode on the reported text
DecodeReceived ==
    /\ sc_pc = "received"
    /\ sc_decoded' = decode_scancode(sc_protocol, sc_scancode.text)
    /\ sc_pc' = "rx_decoded"
    /\ UNCHANGED <<sc_protocol, sc_address, sc_command, sc_scancode, normVars, decVars, flVars, agVars, buVars, bbVars, crVars, lsVars, libVars>>

NextScancode == BuildScancode \/ DecodeScancode \/ DecodeReceived

SpecScancode == InitScancode /\ [][NextScancode]_vars

(***************************************************************************)
(* Claims about the scancode codec.                                        *)
(***************************************************************************)
\* the bytes of a well-formed text "XX" or "XX YY"
SpecBytes(text) ==
    LET val(i) == 16 * (IndexIn("0123456789ABCDEF", Char(text, i)) - 1)
                  + (IndexIn("0123456789ABCDEF", Char(text, i + 1)) - 1)
    IN IF Len(text) = 2 THEN <<val(1)>> ELSE <<val(1), val(4)>>

\* trailing zero bytes removed, one byte kept
RECURSIVE SpecTrim(_)
SpecTrim(bytes) ==
    IF Len(bytes) > 1 /\ bytes[Len(bytes)] = 0 THEN SpecTrim(DropLast(bytes))
    ELSE bytes

\* C9: for nec and necx and every well-formed address and command of one or
\* two hex bytes, decoding the scancode built from (address, command)
\* returns the same address and command bytes, up to removal of trailing
\* zero bytes.
C9_RoundTrip ==
    (/\ sc_pc = "decoded"
     /\ _normalize_protocol(sc_protocol) \in {"nec", "necx"}
     /\ sc_address \in WellFormedHex
     /\ sc_command \in WellFormedHex)
    => /\ SpecTrim(SpecBytes(sc_decoded[1])) = SpecTrim(SpecBytes(sc_address))
       /\ SpecTrim(SpecBytes(sc_decoded[2])) = SpecTrim(SpecBytes(sc_command))

\* the text of a list of bytes: upper-case hex pairs separated by blanks
SpecByteText(bytes) == JoinSpace([i \in 1..Len(bytes) |-> Hex02X(bytes[i])])

\* C28: for the Sony family (sony, sony15, sony20), encode and decode are
\* mutually inverse: for every address and every command below 0x80,
\* decoding the scancode built from (address, command) returns that same
\* address and command (a trailing zero byte of the address may be dropped).
C28_SonyRoundTrip ==
    (/\ sc_pc = "decoded"
     /\ _normalize_protocol(sc_protocol) \in {"sony", "sony15", "sony20"}
     /\ sc_address \in WellFormedHex
     /\ sc_command \in WellFormedHex
     /\ Len(SpecBytes(sc_command)) = 1
     /\ SpecBytes(sc_command)[1] < 128)
    => /\ sc_decoded[1] \in {SpecByteText(SpecBytes(sc_address)),
                             SpecByteText(SpecTrim(SpecBytes(sc_address)))}
       /\ sc_decoded[2] = SpecByteText(SpecBytes(sc_command))

\* the protocol keys the codec knows (the values of the alias table)
SupportedProtocols ==
    {"kaseikyo", "nec", "necx", "pioneer", "rc5", "rc5x", "rc6", "rca",
     "samsung32", "sony", "sony15", "sony20"}

\* C10: when the normalised protocol name is not a supported protocol, the
\* encode fails (UnsupportedProtocol) and returns no scancode, even if the
\* address and the command are valid hex bytes.
C10_UnsupportedProtocol ==
    (/\ sc_pc = "built"
     /\ _normalize_protocol(sc_protocol) \notin SupportedProtocols)
    => ~sc_scancode.ok

\* a text holds two adjacent hex digits somewhere
HasHexPair(text) ==
    \E i \in 1..(Len(text) - 1) :
        IsHexDigit(Char(text, i)) /\ IsHexDigit(Char(text, i + 1))

\* C11: for every protocol, the encode returns no scancode whenever the
\* address text or the command text contains no pair of hex digits; no
\* scancode is ever built from an empty address or an empty command.
C11_InvalidHex ==
    (/\ sc_pc = "built"
     /\ (~HasHexPair(sc_address) \/ ~HasHexPair(sc_command)))
    => ~sc_scancode.ok

\* only the command lacks a pair of hex digits, and the encode has failed
C11_Witness ==
    /\ sc_pc = "built"
    /\ sc_protocol = "rc5"
    /\ sc_address = "12"
    /\ sc_command = "1 2"
    /\ sc_scancode = NoScancode

\* an optional 0x prefix followed by hex digits only, at least one
WellFormedNumber(text) ==
    LET digits == IF Len(text) >= 2 /\ SubSeq(text, 1, 2) = "0x"
                  THEN SubSeq(text, 3, Len(text)) ELSE text
    IN /\ digits # ""
       /\ \A i \in 1..Len(digits) : IsHexDigit(Char(digits, i))

\* C12: for every protocol and every scancode text that is not a
\* well-formed hexadecimal number, decode_scancode returns address "00"
\* and command "00".
C12_MalformedDecodesZero ==
    (/\ sc_pc = "rx_decoded"
     /\ ~WellFormedNumber(sc_scancode.text))
    => sc_decoded = <<"00", "00">>

(***************************************************************************)
(* SpecFlipper: IRLibrary writes a list of signal records with             *)
(* serialize_signals and reads it back with parse_signals                  *)
(* (save_remote_signals / load_remote), or reads a file it did not write.  *)
(***************************************************************************)
MaxSignals == 2

MaxFileLines == 3

SignalNames == {"A", "Vol up"}

ParsedRecords ==
    {FlipperIRSignal(n, "parsed", Some("NEC"), Some("04"), Some(c), Absent, Absent, Absent) :
        n \in SignalNames, c \in {"08", "08 00"}}

RawRecords ==
    {FlipperIRSignal(n, "raw", Absent, Absent, Absent, Some(38000), Some(d), Some(t)) :
        n \in SignalNames, d \in {3300000, 3333333},
        t \in {<<9000, 4500, 560, 1690>>, <<560>>, <<>>}}

SignalRecords == ParsedRecords \cup RawRecords

LinePool ==
    <<"#", "name: A", "type: raw", "type: parsed", "protocol: NEC",
      "frequency: 38000", "data: 10 x 0x20 -5", "duty_cycle: 0.33",
      "foo: bar", "garbage">>

FileLines == {LinePool[i] : i \in 1..Len(LinePool)}

FileTexts == {JoinWith("\n", ls) : ls \in BoundedSeq(FileLines, MaxFileLines)}

\* the lines of a library file: comments that name a model in several
\* spellings, comments that do not, an empty comment, and field lines
MaxLibraryLines == 4

LibraryLinePool ==
    <<"# model: TV", "# Model:AC", "#", "## Living room #1", "#  # model:  X ",
      "# model:", "name: A", "type: raw">>

LibraryLines == {LibraryLinePool[i] : i \in 1..Len(LibraryLinePool)}

LibraryTexts ==
    {JoinWith("\n", ls) : ls \in BoundedSeq(LibraryLines, MaxLibraryLines)}

InitFlipper ==
    /\ LibIdle
    /\ LsIdle
    /\ CrIdle
    /\ BbIdle
    /\ BuIdle
    /\ AgIdle
    /\ NormIdle
    /\ DecIdle
    /\ ScIdle
    /\ fl_parsed = <<>>
    /\ \/ /\ fl_signals \in BoundedSeq(SignalRecords, MaxSignals)
          /\ fl_text = ""
          /\ fl_pc = "records"
       \/ /\ fl_signals = <<>>
          /\ fl_text \in FileTexts
          /\ fl_pc = "file"
       \/ /\ fl_signals = <<>>
          /\ fl_text \in LibraryTexts
          /\ fl_pc = "library"

\* save_remote_signals: path.write_text(serialize_signals(signals))
SerializeSignals ==
    /\ fl_pc = "records"
    /\ fl_text' = serialize_signals(fl_signals)
    /\ fl_pc' = "written"
    /\ UNCHANGED <<fl_signals, fl_parsed, normVars, decVars, scVars, agVars, buVars, bbVars, crVars, lsVars, libVars>>

\* load_remote: parse_signals(text)
ParseSignals ==
    /\ fl_pc \in {"written", "file"}
    /\ fl_parsed' = parse_signals(fl_text)
    /\ fl_pc' = IF fl_pc = "written" THEN "read" ELSE "file_read"
    /\ UNCHANGED <<fl_signals, fl_text, normVars, decVars, scVars, agVars, buVars, bbVars, crVars, lsVars, libVars>>

\* the library browser: parse_library_signals(text) of a library file
ParseLibrarySignals ==
    /\ fl_pc = "library"
    /\ fl_parsed' = parse_library_signals(fl_text)
    /\ fl_pc' = "library_read"
    /\ UNCHANGED <<fl_signals, fl_text, normVars, decVars, scVars, agVars, buVars, bbVars, crVars, lsVars, libVars>>

NextFlipper == SerializeSignals \/ ParseSignals \/ ParseLibrarySignals

SpecFlipper == InitFlipper /\ [][NextFlipper]_vars

(***************************************************************************)
(* Claims about the signal record codec.                                   *)
(***************************************************************************)
\* C13: for every list of parsed and raw signal records,
\* parse_signals(serialize_signals(list)) is equal to the list, in the same
\* order and with the same field values.
C13_RoundTrip == (fl_pc = "read") => (fl_parsed = fl_signals)

RecognisedKeys ==
    {"name", "type", "protocol", "address", "command", "frequency",
     "duty_cycle", "data"}

\* a "key: value" line whose key is not a recognised field
IsUnknownField(line) ==
    LET stripped == StrStrip(line)
        colon == FindChar(stripped, ":")
    IN /\ colon > 0
       /\ ~startswith(stripped, "#")
       /\ StrStrip(SubSeq(stripped, 1, colon - 1)) \notin RecognisedKeys

\* the text without its unknown-field lines
DropUnknownFields(text) ==
    JoinWith("\n", SelectSeq(splitlines(text), LAMBDA line : ~IsUnknownField(line)))

\* C14: unknown fields are ignored by parse_signals: deleting every
\* "key: value" line whose key is not a recognised field leaves the
\* returned signal list unchanged; a text without any recognised field
\* yields the empty list.
C14_UnknownIgnored ==
    (fl_pc = "file_read") => (parse_signals(DropUnknownFields(fl_text)) = fl_parsed)

\* C15: every record produced by parse_signals has the payload of its kind
\* only: a parsed record has no frequency, duty cycle or timing data, and a
\* raw record has no protocol, address or command.
C15_OnePayload ==
    (fl_pc \in {"read", "file_read"})
    => \A i \in 1..Len(fl_parsed) :
          /\ fl_parsed[i].signal_type = "parsed"
             => /\ ~fl_parsed[i].frequency.some
                /\ ~fl_parsed[i].duty_cycle.some
                /\ ~fl_parsed[i].data.some
          /\ fl_parsed[i].signal_type = "raw"
             => /\ ~fl_parsed[i].protocol.some
                /\ ~fl_parsed[i].address.some
                /\ ~fl_parsed[i].command.some

\* a line that opens or closes a block
IsCommentLine(line) == startswith(StrStrip(line), "#")

\* a line that gives a field of the pending signal
IsFieldLine(line) ==
    LET stripped == StrStrip(line)
    IN /\ stripped # ""
       /\ stripped \notin ACCEPTED_FILETYPES
       /\ stripped # "Version: 1"
       /\ ~startswith(stripped, "#")
       /\ FindChar(stripped, ":") > 0

\* the comment of a `#` line: what follows its leading `#`s and blanks
RECURSIVE CommentOf(_)
CommentOf(line) ==
    IF line # "" /\ (Char(line, 1) = "#" \/ IsSpace(Char(line, 1)))
    THEN CommentOf(SubSeq(line, 2, Len(line)))
    ELSE StrStrip(line)

\* the model a comment names: the text after "model:" (in any letter case)
\* when there is such text, else the comment itself
ModelNamed(comment) ==
    IF Len(comment) > 6 /\ StrLower(SubSeq(comment, 1, 6)) = "model:"
    THEN StrStrip(SubSeq(comment, 7, Len(comment)))
    ELSE comment

\* the lines that are the first field line of a signal: no field line
\* stands between them and the `#` line before them (or the top of the text)
FirstFieldLines(lines) ==
    {k \in 1..Len(lines) :
        /\ IsFieldLine(lines[k])
        /\ \A j \in 1..(k - 1) :
              IsFieldLine(lines[j])
              => \E c \in (j + 1)..(k - 1) : IsCommentLine(lines[c])}

\* the tag of the signal whose first field line is line k
ExpectedModel(lines, k) ==
    LET named == {c \in 1..(k - 1) :
                     IsCommentLine(lines[c]) /\ CommentOf(lines[c]) # ""}
    IN IF named = {} THEN "Unknown"
       ELSE ModelNamed(CommentOf(lines[Max(named)]))

MaxCaptures == 3

RawCapture(frequency, data) ==
    CaptureDict("RAW", "raw", Some("RAW"), Absent, Absent, "ir-ctl",
                Some(frequency), Some(33), data)

ParsedCapture(protocol, source, data) ==
    CaptureDict(protocol, "parsed", Some(protocol), Some("04"), Some("08"), source,
                IF data = <<>> THEN Absent ELSE Some(38000), Absent, data)

SessionCaptures ==
    {RawCapture(38000, <<500, 600>>), RawCapture(36000, <<500, 600>>),
     RawCapture(38000, <<511, 601>>), RawCapture(38000, <<500, 600, 700>>),
     ParsedCapture("NEC", "ir-ctl", <<520, 640, 700>>),
     ParsedCapture("NEC", "ir-keytable", <<>>),
     ParsedCapture("SONY", "ir-keytable", <<>>)}

AggregateModes == {"Best", "Median", "Mean"}

InitAggregate ==
    /\ LibIdle
    /\ LsIdle
    /\ CrIdle
    /\ BbIdle
    /\ BuIdle
    /\ NormIdle
    /\ DecIdle
    /\ ScIdle
    /\ FlIdle
    /\ ag_captures = <<>>
    /\ ag_selection = 0
    /\ ag_mode = "Selected"
    /\ ag_detail = ""
    /\ ag_aggregate = NotCalled
    /\ ag_selected = NotCalled

\* the detail shown under the capture list
_detail_for(captures, mode, detail, selection) ==
    IF mode = "Selected"
    THEN (IF selection > 0 THEN "Capture detail" ELSE detail)
    ELSE _aggregate_detail_line(captures)

\* _add_capture: the capture is appended and selected (the list box raises
\* _on_capture_select), and the detail line is refreshed
AddCapture ==
    /\ Len(ag_captures) < MaxCaptures
    /\ \E capture \in SessionCaptures :
          /\ ag_captures' = Append(ag_captures, capture)
          /\ ag_selection' = Len(ag_captures) + 1
          /\ ag_detail' = _detail_for(Append(ag_captures, capture), ag_mode,
                                      ag_detail, Len(ag_captures) + 1)
    /\ ag_aggregate' = NotCalled
    /\ ag_selected' = NotCalled
    /\ UNCHANGED <<ag_mode, normVars, decVars, scVars, flVars, buVars, bbVars, crVars, lsVars, libVars>>

\* _on_capture_select
OnCaptureSelect ==
    /\ \E index \in 1..Len(ag_captures) :
          /\ ag_selection' = index
          /\ ag_detail' = _detail_for(ag_captures, ag_mode, ag_detail, index)
    /\ ag_aggregate' = NotCalled
    /\ ag_selected' = NotCalled
    /\ UNCHANGED <<ag_captures, ag_mode, normVars, decVars, scVars, flVars, buVars, bbVars, crVars, lsVars, libVars>>

\* the mode picker is set, then _on_aggregate_mode_change runs
OnAggregateModeChange ==
    /\ \E mode \in AggregateModes \cup {"Selected"} :
          /\ ag_mode' = mode
          /\ ag_detail' = _detail_for(ag_captures, mode, ag_detail, ag_selection)
    /\ ag_aggregate' = NotCalled
    /\ ag_selected' = NotCalled
    /\ UNCHANGED <<ag_captures, ag_selection, normVars, decVars, scVars, flVars, buVars, bbVars, crVars, lsVars, libVars>>

\* _selected_capture: the aggregate when a mode asks for one and there is
\* one, else the selected row; _last_capture is the last row
SelectedCapture ==
    /\ ag_aggregate = NotCalled
    /\ LET aggregate == IF ag_mode \in AggregateModes
                        THEN _aggregate_capture(ag_captures, ag_mode)
                        ELSE NoCapture
       IN /\ ag_aggregate' = aggregate
          /\ ag_selected' = IF aggregate # NoCapture THEN aggregate
                            ELSE IF ag_selection > 0 THEN ag_captures[ag_selection]
                            ELSE NoCapture
    /\ UNCHANGED <<ag_captures, ag_selection, ag_mode, ag_detail, normVars, decVars, scVars, flVars, buVars, bbVars, crVars, lsVars, libVars>>

NextAggregate ==
    AddCapture \/ OnCaptureSelect \/ OnAggregateModeChange \/ SelectedCapture

SpecAggregate == InitAggregate /\ [][NextAggregate]_vars

(***************************************************************************)
(* Claims about capture aggregation.                                       *)
(***************************************************************************)
\* the captures of the session that carry raw timings
RawSamples(captures) ==
    {i \in 1..Len(captures) : captures[i].data # <<>>}

\* the timing array of what _aggregate_capture returned, <<>> for none
AggregateData == IF ag_aggregate = NoCapture THEN <<>> ELSE ag_aggregate.data

Aggregated == ag_aggregate # NotCalled /\ ag_mode \in AggregateModes

\* C16: when fewer than two captures of the session carry raw timings,
\* aggregation in Mean, Median or Best mode yields no aggregate timing
\* array; a numeric aggregate is produced only from two or more raw samples.
C16_InsufficientData ==
    (Aggregated /\ Cardinality(RawSamples(ag_captures)) < 2)
    => AggregateData = <<>>

ShortestLength ==
    Min({Len(ag_captures[i].data) : i \in RawSamples(ag_captures)})

\* C17 as stated: in Mean, Median and Best mode alike, the timing array of
\* the aggregate has exactly the length of the shortest contributing raw
\* sample.
C17_ShortestLength ==
    (Aggregated /\ Cardinality(RawSamples(ag_captures)) >= 2)
    => Len(AggregateData) = ShortestLength

\* C17: in Mean and Median mode the timing array of the aggregate has
\* exactly the length of the shortest contributing raw sample; in Best mode
\* the result is one of the session's captures as it was captured, so its
\* timing array is at least that long and is not cut.
C17_ShortestLengthMeanMedian ==
    (Aggregated /\ Cardinality(RawSamples(ag_captures)) >= 2)
    => IF ag_mode = "Best"
       THEN /\ \E i \in RawSamples(ag_captures) : ag_aggregate = ag_captures[i]
            /\ Len(AggregateData) >= ShortestLength
       ELSE Len(AggregateData) = ShortestLength

\* samples of two and three timings were averaged into two timings
C17_Witness ==
    /\ Aggregated
    /\ ag_mode = "Mean"
    /\ Len(ag_captures) = 2
    /\ Len(ag_captures[1].data) = 3
    /\ Len(ag_captures[2].data) = 2
    /\ Len(ag_aggregate.data) = 2

\* C18: when all N >= 2 raw samples of a session are identical timing
\* arrays, Mean, Median and Best each return timing data equal to that
\* sample, element for element.
C18_IdenticalSamples ==
    (/\ Aggregated
     /\ Cardinality(RawSamples(ag_captures)) >= 2
     /\ \A i, j \in RawSamples(ag_captures) : ag_captures[i].data = ag_captures[j].data)
    => \A i \in RawSamples(ag_captures) : AggregateData = ag_captures[i].data

\* two identical samples, differing in carrier only, aggregated by median
C18_Witness ==
    /\ Aggregated
    /\ ag_mode = "Median"
    /\ Len(ag_captures) = 2
    /\ ag_captures[1].data = <<500, 600>>
    /\ ag_captures[2].data = <<500, 600>>
    /\ ag_captures[1] # ag_captures[2]
    /\ ag_aggregate.data = <<500, 600>>

\* the per-index median of the samples cut to the shortest length
MedianBaseline ==
    _aggregate_raw_baseline(_trim_raw_entries(_raw_entries(ag_captures)), "Median").v

\* sum of the absolute per-index differences of sample i from the baseline
Deviation(i) ==
    SumSeq([k \in 1..ShortestLength |->
               Abs(ag_captures[i].data[k] - MedianBaseline[k])])

Rounded(sum) ==
    IF sum % 2 = 0 THEN {sum \div 2}
    ELSE {(sum + 1) \div 2,
          IF ((sum - 1) \div 2) % 2 = 0 THEN (sum - 1) \div 2 ELSE (sum + 1) \div 2}

\* the column of index k over the raw samples, and its k-th smallest value
Column(k) ==
    LET raw == SelectSeq(ag_captures, LAMBDA capture : capture.data # <<>>)
    IN [row \in 1..Len(raw) |-> raw[row].data[k]]

\* C25: in Median mode with an even number of samples, the value at each
\* index is the average of the two middle values of the sorted column
\* rounded to the nearest integer; with an odd number of samples it is the
\* middle value.
C25_MedianRounded ==
    (Aggregated /\ ag_mode = "Median" /\ RawSamples(ag_captures) # {})
    => LET n == Cardinality(RawSamples(ag_captures))
       IN /\ Len(AggregateData) = ShortestLength
          /\ \A k \in 1..ShortestLength :
                IF n % 2 = 1
                THEN AggregateData[k] = KthSmallest(Column(k), (n + 1) \div 2)
                ELSE AggregateData[k] \in
                       Rounded(KthSmallest(Column(k), n \div 2)
                               + KthSmallest(Column(k), n \div 2 + 1))

(***************************************************************************)
(* SpecBursts: the timing list of a raw capture is cut into bursts         *)
(* (_decode_best_burst, line 490).                                         *)
(***************************************************************************)
MaxBurstLen == 5

\* pulses and spaces, and gaps at and above the marker threshold
BurstValues == {500, 600, 1000000, 1000001}

InitBursts ==
    /\ LibIdle
    /\ LsIdle
    /\ CrIdle
    /\ BbIdle
    /\ NormIdle
    /\ DecIdle
    /\ ScIdle
    /\ FlIdle
    /\ AgIdle
    /\ bu_data \in BoundedSeq(BurstValues, MaxBurstLen)
    /\ bu_bursts = <<>>
    /\ bu_pc = "captured"

SplitBursts ==
    /\ bu_pc = "captured"
    /\ bu_bursts' = _split_bursts(bu_data)
    /\ bu_pc' = "split"
    /\ UNCHANGED <<bu_data, normVars, decVars, scVars, flVars, agVars, bbVars, crVars, lsVars, libVars>>

NextBursts == SplitBursts

SpecBursts == InitBursts /\ [][NextBursts]_vars

\* burst occurs in data as a run of consecutive values
IsRunOf(burst, data) ==
    \E start \in 1..(Len(data) - Len(burst) + 1) :
        SubSeq(data, start, start + Len(burst) - 1) = burst

\* C20: each burst returned by the segmenter is a non-empty, even-length
\* run of consecutive input values, and no burst contains a value above
\* 1,000,000 microseconds: every such value is taken as a marker between
\* bursts, also at the very start of the list and right after another
\* marker.
C20_Bursts ==
    (bu_pc = "split")
    => \A i \in 1..Len(bu_bursts) :
          /\ bu_bursts[i] # <<>>
          /\ Len(bu_bursts[i]) % 2 = 0
          /\ IsRunOf(bu_bursts[i], bu_data)
          /\ \A k \in 1..Len(bu_bursts[i]) : bu_bursts[i][k] <= 1000000

(***************************************************************************)
(* SpecDecode: the capture collaborator hands over the timings of one      *)
(* transmitted frame, and decode_raw_timings is applied to them.           *)
(* A frame is a header, nbits pulse-distance bits taken from its bytes     *)
(* (each byte least-significant bit first, the bytes repeating), sent with *)
(* the nominal timings of a protocol plus a deviation.                     *)
(***************************************************************************)
NumByteChoices == 3

ByteList == <<1, 254, 2, 253, 0, 255, 90, 165>>

ByteChoices ==
    {ByteList[i] : i \in {j \in 1..NumByteChoices : j <= Len(ByteList)}}

\* nominal timings of the pulse-distance protocols, with the tolerance the
\* spec's table gives for the header (hptol, hstol) and the bits (btol)
Profiles ==
    { [name |-> "nec", hp |-> 9000, hs |-> 4500, bp |-> 560, zero |-> 560,
       one |-> 1690, hptol |-> 200, hstol |-> 200, btol |-> 120],
      [name |-> "samsung", hp |-> 4500, hs |-> 4500, bp |-> 550, zero |-> 550,
       one |-> 1650, hptol |-> 200, hstol |-> 200, btol |-> 120],
      [name |-> "jvc", hp |-> 8400, hs |-> 4200, bp |-> 525, zero |-> 525,
       one |-> 1575, hptol |-> 2100, hstol |-> 1260, btol |-> 120],
      [name |-> "kaseikyo", hp |-> 3500, hs |-> 1750, bp |-> 432, zero |-> 432,
       one |-> 1296, hptol |-> 1050, hstol |-> 525, btol |-> 120],
      [name |-> "sharp", hp |-> 320, hs |-> 1600, bp |-> 320, zero |-> 320,
       one |-> 680, hptol |-> 160, hstol |-> 640, btol |-> 120],
      [name |-> "xmp", hp |-> 2090, hs |-> 780, bp |-> 780, zero |-> 390,
       one |-> 1170, hptol |-> 627, hstol |-> 273, btol |-> 120] }

\* the bit counts sent with each header: the protocol's own, one short of
\* it, and for the 9000/4500 header the 42 bits of a Sanyo frame
BitCounts(name) ==
    CASE name = "nec" -> {31, 32, 42}
      [] name = "samsung" -> {32}
      [] name = "jvc" -> {16}
      [] name = "kaseikyo" -> {48}
      [] name = "sharp" -> {14, 15}
      [] name = "xmp" -> {32}

\* deviation of <<header pulse, header space, bit pulse, bit space>>, in
\* units of the tolerance; a fifth entry of 1 flips the sign of the bit
\* deviations on every other bit
DevSigns ==
    { <<0, 0, 0, 0, 0>>, <<1, 1, 1, 1, 0>>, <<-1, -1, -1, -1, 0>>,
      <<1, -1, 1, -1, 0>>, <<-1, 1, -1, 1, 0>>, <<1, -1, 1, -1, 1>> }

FrameBytes(name) ==
    IF name = "nec" THEN [1..4 -> ByteChoices]
    ELSE {<<x, y, x, y>> : x \in ByteChoices, y \in ByteChoices}

Frames ==
    { [profile |-> p, nbits |-> n, bytes |-> b, dev |-> d, wrap |-> w] :
        p \in Profiles, n \in UNION {BitCounts(q.name) : q \in Profiles},
        b \in [1..4 -> ByteChoices], d \in DevSigns,
        w \in {"plain", "captured"} }

ValidFrame(f) ==
    /\ f.nbits \in BitCounts(f.profile.name)
    /\ f.bytes \in FrameBytes(f.profile.name)

NecProfile == CHOOSE p \in Profiles : p.name = "nec"

\* classic NEC frames a, ~a, c, ~c with one of the two bytes running over
\* all 256 values
NecSweepFrames ==
    { [profile |-> NecProfile, nbits |-> 32,
       bytes |-> <<ac[1], 255 - ac[1], ac[2], 255 - ac[2]>>, dev |-> d,
       wrap |-> "plain"] :
        ac \in ((0..255) \X ByteChoices) \cup (ByteChoices \X (0..255)),
        d \in DevSigns }

\* bit i (from 0) of the payload
FrameBit(f, i) == (f.bytes[((i \div 8) % 4) + 1] \div Pow2(i % 8)) % 2

\* the unsigned pulse/space list of the frame
FrameTimings(f) ==
    LET p == f.profile
        d == f.dev
    IN [k \in 1..(2 + 2 * f.nbits) |->
          IF k = 1 THEN p.hp + d[1] * p.hptol
          ELSE IF k = 2 THEN p.hs + d[2] * p.hstol
          ELSE LET bit == (k - 3) \div 2
                   flip == IF d[5] = 1 /\ bit % 2 = 1 THEN -1 ELSE 1
               IN IF k % 2 = 1 THEN p.bp + flip * d[3] * p.btol
                  ELSE (IF FrameBit(f, bit) = 1 THEN p.one ELSE p.zero)
                       + flip * d[4] * p.btol]

\* what the receiver reports: the list as it is, or signed, after the idle
\* gap before the frame, with the stop pulse and the closing timeout
FrameSamples(f) ==
    LET t == FrameTimings(f)
    IN IF f.wrap = "plain" THEN t
       ELSE <<-30000>>
            \o [k \in 1..Len(t) |-> IF k % 2 = 1 THEN t[k] ELSE -t[k]]
            \o <<f.profile.bp, -20000>>

\* short and arbitrary timing lists, handed over as they are
MaxListLen == 6

ListValues == {9000, 320, 1600, -560}

ListFrames ==
    { [profile |-> [name |-> "list"], nbits |-> 0, bytes |-> <<>>,
       dev |-> <<0, 0, 0, 0, 0>>, wrap |-> "list", samples |-> t] :
        t \in BoundedSeq(ListValues, MaxListLen) }

\* RC-MM frames: the 416/278 header, then one pulse and one of the four
\* spaces per symbol; the symbols repeat a seed of three, and all timings
\* carry the same deviation
RcmmSymbolCounts == {5, 6, 7, 8, 9}

RcmmLevels == <<444, 889, 1333, 1778>>

RcmmTimings(symbols, dev) ==
    <<416 + dev, 278 + dev>>
      \o [k \in 1..(2 * Len(symbols)) |->
            IF k % 2 = 1 THEN 416 + dev
            ELSE RcmmLevels[symbols[k \div 2] + 1] + dev]

RcmmFrames ==
    { [profile |-> [name |-> "rcmm"], nbits |-> 2 * n, bytes |-> <<>>,
       dev |-> <<d, d, d, d, 0>>, wrap |-> "list",
       symbols |-> [k \in 1..n |-> seed[((k - 1) % 3) + 1]],
       samples |-> RcmmTimings([k \in 1..n |-> seed[((k - 1) % 3) + 1]], 40 * d)] :
        n \in RcmmSymbolCounts, seed \in [1..3 -> 0..3], d \in {-1, 0, 1} }

\* Manchester frames behind the 2666/889 header, unit 444: a bit 1 is sent
\* as mark then space, a bit 0 as space then mark; the frame is a leading
\* bit, three mode bits, a toggle bit, address and command, cut to n bits
Rc6BitCounts == {19, 20, 21, 22}

Rc6Bytes == {0, 1, 3, 128, 129}

ByteBits(value) == [k \in 1..8 |-> (value \div Pow2(8 - k)) % 2]

ManchesterLevels(bits) ==
    [k \in 1..(2 * Len(bits)) |->
        IF k % 2 = 1 THEN bits[(k + 1) \div 2] ELSE 1 - bits[k \div 2]]

\* the lengths of the runs of equal levels
RECURSIVE LevelRuns(_)
LevelRuns(levels) ==
    IF levels = <<>> THEN <<>>
    ELSE LET changes == {i \in 1..Len(levels) : levels[i] # levels[1]}
             k == IF changes = {} THEN Len(levels) ELSE Min(changes) - 1
         IN <<k>> \o LevelRuns(SubSeq(levels, k + 1, Len(levels)))

\* a frame that begins with a space lengthens the header space
Rc6Timings(bits, dev) ==
    LET levels == ManchesterLevels(bits)
        runs == LevelRuns(levels)
        body == [i \in 1..Len(runs) |-> 444 * runs[i] + dev]
    IN IF levels[1] = 1 THEN <<2666 + dev, 889 + dev>> \o body
       ELSE <<2666 + dev, 889 + body[1]>> \o Tail(body)

Rc6Frames ==
    { [profile |-> [name |-> "rc6"], nbits |-> n, bytes |-> <<a, c>>,
       dev |-> <<d, d, d, d, 0>>, wrap |-> "list",
       bits |-> SubSeq(<<lead>> \o mode \o <<t>> \o ByteBits(a) \o ByteBits(c) \o <<1>>, 1, n),
       samples |-> Rc6Timings(SubSeq(<<lead>> \o mode \o <<t>> \o ByteBits(a)
                                       \o ByteBits(c) \o <<1>>, 1, n), 30 * d)] :
        n \in Rc6BitCounts, lead \in {0, 1}, mode \in {<<0, 0, 0>>, <<0, 0, 1>>},
        t \in {0, 1}, a \in Rc6Bytes, c \in Rc6Bytes, d \in {-1, 0, 1} }

InitDecode ==
    /\ LibIdle
    /\ LsIdle
    /\ CrIdle
    /\ BbIdle
    /\ BuIdle
    /\ AgIdle
    /\ NormIdle
    /\ ScIdle
    /\ FlIdle
    /\ cap_frame \in {f \in Frames : ValidFrame(f)} \cup NecSweepFrames \cup ListFrames
                    \cup RcmmFrames \cup Rc6Frames
    /\ cap_samples = IF cap_frame.wrap = "list" THEN cap_frame.samples
                     ELSE FrameSamples(cap_frame)
    /\ dec_result = None
    /\ dec_pc = "captured"

DecodeRawTimings ==
    /\ dec_pc = "captured"
    /\ dec_result' = decode_raw_timings(cap_samples)
    /\ dec_pc' = "decoded"
    /\ UNCHANGED <<cap_frame, cap_samples, normVars, scVars, flVars, agVars, buVars, bbVars, crVars, lsVars, libVars>>

NextDecode == DecodeRawTimings

SpecDecode == InitDecode /\ [][NextDecode]_vars

(***************************************************************************)
(* SpecBestBurst: a capture made of several bursts, each followed by the   *)
(* silence between repeats, is handed to _decode_best_burst                *)
(* (capture_signal, line 179).                                             *)
(***************************************************************************)
MaxBursts == 3

PlainFrame(name, nbits, bytes) ==
    [profile |-> CHOOSE p \in Profiles : p.name = name, nbits |-> nbits,
     bytes |-> bytes, dev |-> <<0, 0, 0, 0, 0>>, wrap |-> "plain"]

\* a frame as it stands in a normalised capture: its timings and stop pulse
SentFrame(name, nbits, bytes) ==
    LET f == PlainFrame(name, nbits, bytes)
    IN FrameTimings(f) \o <<f.profile.bp>>

\* count pulse/space pairs of the given widths
Repeated(pulse, space, count) ==
    [k \in 1..(2 * count) |-> IF k % 2 = 1 THEN pulse ELSE space]

\* the bursts a capture is made of:
\*   two NEC frames of 33 pairs, a JVC frame of 17 pairs, a Sanyo frame
\*   of 43 pairs, an NEC frame followed by noise (63 pairs), noise of 35
\*   pairs that no decoder accepts, a Sharp-like header followed by 30
\*   pairs, and a single pair
BurstPool ==
    { SentFrame("nec", 32, <<1, 254, 2, 253>>),
      SentFrame("nec", 32, <<2, 253, 1, 254>>),
      SentFrame("jvc", 16, <<1, 2, 1, 2>>),
      SentFrame("nec", 42, <<1, 2, 1, 2>>),
      SentFrame("nec", 32, <<1, 254, 2, 253>>) \o Repeated(500, 500, 30),
      Repeated(5000, 5000, 35),
      <<320, 1600>> \o Repeated(320, 320, 30),
      <<500, 600>> }

\* each burst is followed by the silence up to the next repeat, which is
\* above the marker threshold
RECURSIVE JoinBursts(_)
JoinBursts(bursts) ==
    IF bursts = <<>> THEN <<>>
    ELSE bursts[1] \o <<1000001>> \o JoinBursts(Tail(bursts))

\* capture_signal calls only with a non-empty list (has_data, line 178)
CaptureData ==
    {JoinBursts(bursts) : bursts \in BoundedSeq(BurstPool, MaxBursts) \ {<<>>}}
      \cup {<<500>>, <<1000001>>}

InitBestBurst ==
    /\ LibIdle
    /\ LsIdle
    /\ CrIdle
    /\ NormIdle
    /\ DecIdle
    /\ ScIdle
    /\ FlIdle
    /\ AgIdle
    /\ BuIdle
    /\ bb_data \in CaptureData
    /\ bb_result = NotCalled
    /\ bb_pc = "captured"

DecodeBestBurst ==
    /\ bb_pc = "captured"
    /\ bb_result' = _decode_best_burst(bb_data)
    /\ bb_pc' = "chosen"
    /\ UNCHANGED <<bb_data, normVars, decVars, scVars, flVars, agVars, buVars, crVars, lsVars, libVars>>

NextBestBurst == DecodeBestBurst

SpecBestBurst == InitBestBurst /\ [][NextBestBurst]_vars

\* the bursts of the capture that decode, with at least pairs timing pairs
DecodableBursts(data, pairs) ==
    LET bursts == _split_bursts(data)
    IN {i \in 1..Len(bursts) :
          /\ Len(bursts[i]) >= 2 * pairs
          /\ decode_raw_timings(bursts[i]).kind = "DecodedIR"}

\* the result is a decode of the longest (earliest on ties) burst of at
\* least pairs timing pairs that decodes, and without such a burst it is
\* no decode together with the longest burst of the capture (the capture
\* itself when it holds no burst)
BestBurstOf(data, pairs, result) ==
    LET bursts == _split_bursts(data)
        good == DecodableBursts(data, pairs)
    IN IF good # {}
       THEN LET top == Max({Len(bursts[i]) : i \in good})
                first == Min({i \in good : Len(bursts[i]) = top})
            IN result = BestBurst(decode_raw_timings(bursts[first]),
                                  bursts[first])
       ELSE /\ result.decoded = None
            /\ result.burst = IF bursts = <<>> THEN data
                              ELSE _longest_burst(bursts)

\* C21: the best-burst decode attempts a decode only on bursts of at least
\* 60 timing pairs: a decoded signal is returned only together with a burst
\* meeting that threshold (the longest such burst that decodes, the
\* earliest on ties), and otherwise no decode is returned together with the
\* longest burst of the capture.
C21_BestBurst ==
    (bb_pc = "chosen") => BestBurstOf(bb_data, 60, bb_result)

(***************************************************************************)
(* Claims about decode_raw_timings.  They are stated against the frame     *)
(* that was sent: its bytes are the ground truth, rendered here without    *)
(* the decoder's own helpers.                                              *)
(***************************************************************************)
\* two uppercase hex digits of a byte
SpecHex2(v) ==
    SubSeq("0123456789ABCDEF", (v \div 16) + 1, (v \div 16) + 1)
    \o SubSeq("0123456789ABCDEF", (v % 16) + 1, (v % 16) + 1)

\* the value of payload bits lo..hi-1 of the frame, most significant first
RECURSIVE SpecMsbValue(_, _, _)
SpecMsbValue(f, lo, hi) ==
    IF lo >= hi THEN 0
    ELSE FrameBit(f, hi - 1) + 2 * SpecMsbValue(f, lo, hi - 1)

IsDecoded(protocol, address, command, bits) ==
    /\ dec_result.kind = "DecodedIR"
    /\ dec_result.protocol = protocol
    /\ dec_result.address = address
    /\ dec_result.command = command
    /\ dec_result.bits = bits

\* C1: for every timing list decode_raw_timings returns a decoded signal or
\* None and never raises, whichever header the timings match.
C1_NeverRaises ==
    dec_pc = "decoded" => dec_result.kind \in {"DecodedIR", "None"}

\* C2: [9000, 4500] followed by 32 pulse-distance pairs encoding the bytes
\* a, ~a, c, ~c decodes to NEC with address = hex of a, command = hex of c
\* and 32 bits, also when the header is off by up to 200 and the bits by up
\* to 120 microseconds.
C2_NecLiteral ==
    (/\ dec_pc = "decoded"
     /\ cap_frame.profile.name = "nec"
     /\ cap_frame.nbits = 32
     /\ cap_frame.bytes[2] = 255 - cap_frame.bytes[1]
     /\ cap_frame.bytes[4] = 255 - cap_frame.bytes[3])
    => IsDecoded("NEC", SpecHex2(cap_frame.bytes[1]),
                 SpecHex2(cap_frame.bytes[3]), 32)

\* the literal case of the spec (01 FE 02 FD) with every timing at the edge
\* of its tolerance
C2_Witness ==
    /\ dec_pc = "decoded"
    /\ cap_frame.profile.name = "nec"
    /\ cap_frame.nbits = 32
    /\ cap_frame.wrap = "plain"
    /\ cap_frame.bytes = <<1, 254, 2, 253>>
    /\ cap_frame.dev = <<1, -1, 1, -1, 1>>
    /\ dec_result = DecodedIR("NEC", "01", "02", 32)

\* C3: a list with a 9000/4500 header and 32 valid bits decodes as NEC
\* (address = byte 0, command = byte 2) exactly when byte 1 = ~byte 0 and
\* byte 3 = ~byte 2, and otherwise as NECext with address = bytes 0-1 and
\* command = bytes 2-3; NECext is never returned for a frame that passes
\* both complement checks.
C3_NecOrNecExt ==
    (/\ dec_pc = "decoded"
     /\ cap_frame.profile.name = "nec"
     /\ cap_frame.nbits >= 32)
    => LET b == cap_frame.bytes
       IN IF b[2] = 255 - b[1] /\ b[4] = 255 - b[3]
          THEN /\ dec_result.kind = "DecodedIR"
               /\ dec_result.protocol = "NEC"
               /\ dec_result.address = SpecHex2(b[1])
               /\ dec_result.command = SpecHex2(b[3])
          ELSE /\ dec_result.kind = "DecodedIR"
               /\ dec_result.protocol = "NECext"
               /\ dec_result.address = SpecHex2(b[1]) \o " " \o SpecHex2(b[2])
               /\ dec_result.command = SpecHex2(b[3]) \o " " \o SpecHex2(b[4])

\* a frame failing only the second complement check came back as NECext
C3_Witness ==
    /\ dec_pc = "decoded"
    /\ cap_frame.profile.name = "nec"
    /\ cap_frame.nbits = 32
    /\ cap_frame.bytes = <<1, 254, 2, 2>>
    /\ dec_result = DecodedIR("NECext", "01 FE", "02 02", 32)

\* C4: a 9000/4500 header followed by 42 valid pulse-distance bits is
\* decoded by decode_raw_timings as Sanyo with 42 bits, address = the first
\* two bytes and command = the next two.
C4_Sanyo ==
    (/\ dec_pc = "decoded"
     /\ cap_frame.profile.name = "nec"
     /\ cap_frame.nbits = 42)
    => LET b == cap_frame.bytes
       IN IsDecoded("Sanyo", SpecHex2(b[1]) \o " " \o SpecHex2(b[2]),
                    SpecHex2(b[3]) \o " " \o SpecHex2(b[4]), 42)

\* position of a decoder in the priority order
DecoderIndex(decoder) == CHOOSE i \in DOMAIN DecoderOrder : DecoderOrder[i] = decoder

\* no decoder tried before `decoder` accepts the frame's timings
NoEarlierAccepts(decoder, timings) ==
    \A i \in 1..(DecoderIndex(decoder) - 1) :
        RunDecoder(DecoderOrder[i], timings) = None

\* C5: a list with a ~320/~1600 header followed by 15 valid 320/320/680
\* bits, which no earlier-priority decoder accepts, is decoded as Sharp with
\* 15 bits, address = the first 5 bits and command = the next 8 bits, both
\* most-significant bit first.
C5_Sharp ==
    (/\ dec_pc = "decoded"
     /\ cap_frame.profile.name = "sharp"
     /\ cap_frame.nbits = 15
     /\ NoEarlierAccepts("_decode_sharp", FrameTimings(cap_frame)))
    => IsDecoded("Sharp", SpecHex2(SpecMsbValue(cap_frame, 0, 5)),
                 SpecHex2(SpecMsbValue(cap_frame, 5, 13)), 15)

\* C22: a timing list with a valid RC-MM header (about 416/278) followed by
\* at least 6 valid symbols (pulse about 416, space one of the four levels,
\* two bits per symbol, so at least 12 bits), which no earlier-priority
\* decoder accepts, is decoded as protocol "RCMM"; 6 symbols are enough.
C22_Rcmm ==
    (/\ dec_pc = "decoded"
     /\ cap_frame.profile.name = "rcmm"
     /\ Len(cap_frame.symbols) >= 6
     /\ NoEarlierAccepts("_decode_rcmm", cap_frame.samples))
    => (dec_result.kind = "DecodedIR" /\ dec_result.protocol = "RCMM")

\* the Manchester-demodulated bit sequence of a list, as _decode_rc6 forms it
Rc6Demodulated(samples) ==
    _levels_to_bits(_timings_to_levels(Tail(Tail(_normalize_timings(samples))), 444))

\* the value of the bits at positions lo..hi (counted from 0), most
\* significant first; a position behind the end of the sequence reads as
\* the given filler
RECURSIVE SpecBitsValue(_, _, _, _)
SpecBitsValue(bits, lo, hi, filler) ==
    IF lo > hi THEN 0
    ELSE (IF hi + 1 <= Len(bits) THEN bits[hi + 1] ELSE filler)
         + 2 * SpecBitsValue(bits, lo, hi - 1, filler)

\* C23: whenever decode_raw_timings returns protocol "RC6", the
\* Manchester-demodulated bit sequence has at least 20 bits, leading bit 1
\* and the three mode bits 0, the reported address is the value of the 8
\* bits at positions 5-12 and the reported command is the value of the 8
\* bits at positions 13-20, both most significant bit first (a position 20
\* that was not received may read as either bit).
C23_Rc6 ==
    (dec_pc = "decoded" /\ dec_result.kind = "DecodedIR" /\ dec_result.protocol = "RC6")
    => LET bits == Rc6Demodulated(cap_samples)
       IN /\ Len(bits) >= 20
          /\ bits[1] = 1
          /\ bits[2] = 0 /\ bits[3] = 0 /\ bits[4] = 0
          /\ dec_result.address = SpecHex2(SpecBitsValue(bits, 5, 12, 0))
          /\ \E filler \in {0, 1} :
                dec_result.command = SpecHex2(SpecBitsValue(bits, 13, 20, filler))

\* C19: for every input whose normalised timing list has fewer than 6
\* entries, the empty input and a single-entry input included,
\* decode_raw_timings returns None: no decoder is tried and nothing is
\* raised.
C19_ShortInput ==
    (dec_pc = "decoded" /\ Len(_normalize_timings(cap_samples)) < 6)
    => dec_result = None

\* decode([9000]) has returned None
C19_Witness ==
    /\ dec_pc = "decoded"
    /\ cap_samples = <<9000>>
    /\ dec_result = None

(***************************************************************************)
(* SpecCaptureRaw: the receiver process prints its lines and               *)
(* _capture_raw_signal reads them (capture_signal, raw_worker, line 163).  *)
(***************************************************************************)
MaxCaptureLines == 3

\* what the receiver prints: signed timings, pulse/space words, a bare
\* number, the carrier and the duty cycle, a blank line, and the closing
\* timeout
ReceiverLinePool ==
    <<"+9000 -4500 +560", "-560 +560", "pulse 560", "space  1690", "560",
      "carrier 38000", "duty 0.33", "", "# timeout 20000">>

ReceiverLines == {ReceiverLinePool[i] : i \in 1..Len(ReceiverLinePool)}

InitCaptureRaw ==
    /\ LibIdle
    /\ LsIdle
    /\ NormIdle
    /\ DecIdle
    /\ ScIdle
    /\ FlIdle
    /\ AgIdle
    /\ BuIdle
    /\ BbIdle
    /\ cr_input \in [device : {"", "/dev/lirc1"},
                     lines : BoundedSeq(ReceiverLines, MaxCaptureLines),
                     stop_at : 0..MaxCaptureLines]
    /\ cr_input.device = "" => (cr_input.lines = <<>> /\ cr_input.stop_at = 0)
    /\ cr_input.stop_at <= Len(cr_input.lines)
    /\ cr_result = NotCalled
    /\ cr_pc = "receiving"

CaptureRawSignal ==
    /\ cr_pc = "receiving"
    /\ cr_result' = _capture_raw_signal(cr_input.device, cr_input.lines, cr_input.stop_at)
    /\ cr_pc' = "returned"
    /\ UNCHANGED <<cr_input, normVars, decVars, scVars, flVars, agVars, buVars, bbVars, lsVars, libVars>>

NextCaptureRaw == CaptureRawSignal

SpecCaptureRaw == InitCaptureRaw /\ [][NextCaptureRaw]_vars

\* a blank line, or a line that contains "timeout"
IsEndLine(line) ==
    StrStrip(line) = "" \/ Contains(StrLower(StrStrip(line)), "timeout")

\* the timings collected from the lines: an end line ends the capture when
\* timings have been collected and is skipped otherwise; carrier and duty
\* lines give no timings
RECURSIVE Collected(_, _)
Collected(lines, timings) ==
    IF lines = <<>> THEN timings
    ELSE IF IsEndLine(lines[1])
    THEN (IF timings # <<>> THEN timings ELSE Collected(Tail(lines), timings))
    ELSE IF \/ startswith(StrLower(StrStrip(lines[1])), "carrier")
            \/ startswith(StrLower(StrStrip(lines[1])), "duty")
    THEN Collected(Tail(lines), timings)
    ELSE Collected(Tail(lines), timings \o _line_timings(StrStrip(lines[1])))

\* the lines read before a stop was requested
LinesRead ==
    IF cr_input.stop_at = 0 THEN cr_input.lines
    ELSE SubSeq(cr_input.lines, 1, cr_input.stop_at - 1)

\* C27: for every finite sequence of receiver output lines,
\* _capture_raw_signal returns a result record and never raises: a blank
\* line or a line containing "timeout" ends the capture when timing data
\* has already been collected and is skipped otherwise, and the timings
\* collected so far are returned normalized.
C27_CaptureReturns ==
    (cr_pc = "returned" /\ cr_input.device # "")
    => /\ cr_result.kind = "dict"
       /\ cr_result.signed_data = Collected(LinesRead, <<>>)
       /\ cr_result.data = _normalize_signed_timings(Collected(LinesRead, <<>>))

(***************************************************************************)
(* SpecLibrary: IRLibraryStore (ir/ir_library.py).  A file is named by its *)
(* path under the root without the ".ir" ending; sanitised names hold no   *)
(* dot, so a folder never has the name of a candidate file and             *)
(* candidate.exists() asks for a file.                                      *)
(***************************************************************************)
\* [A-Za-z0-9_-]
IsNameChar(ch) ==
    IndexIn(LowerLetters \o UpperLetters \o DecimalDigits \o "_-", ch) > 0

\* re.sub(r"[^A-Za-z0-9_-]+", "_", text)
RECURSIVE SubUnsafe(_, _)
SubUnsafe(text, in_run) ==
    IF text = "" THEN ""
    ELSE IF IsNameChar(Char(text, 1))
         THEN Char(text, 1) \o SubUnsafe(SubSeq(text, 2, Len(text)), FALSE)
         ELSE (IF in_run THEN "" ELSE "_") \o SubUnsafe(SubSeq(text, 2, Len(text)), TRUE)

\* text.strip("_")
RECURSIVE StripUnderscores(_)
StripUnderscores(text) ==
    IF text = "" THEN ""
    ELSE IF Char(text, 1) = "_" THEN StripUnderscores(SubSeq(text, 2, Len(text)))
    ELSE IF Char(text, Len(text)) = "_" THEN StripUnderscores(SubSeq(text, 1, Len(text) - 1))
    ELSE text

_sanitize_name(name) == StripUnderscores(SubUnsafe(StrStrip(name), FALSE))

IsSeparator(ch) == ch \in {"/", "\\"}

\* re.split(r"[\\/]+", text)
RECURSIVE SplitPath(_)
SplitPath(text) ==
    LET seps == {k \in 1..Len(text) : IsSeparator(Char(text, k))}
    IN IF seps = {} THEN <<text>>
       ELSE LET k == Min(seps)
                past == {j \in k..Len(text) : ~IsSeparator(Char(text, j))}
                rest == IF past = {} THEN "" ELSE SubSeq(text, Min(past), Len(text))
            IN <<SubSeq(text, 1, k - 1)>> \o SplitPath(rest)

RECURSIVE JoinPath(_)
JoinPath(parts) ==
    IF parts = <<>> THEN ""
    ELSE IF Len(parts) = 1 THEN parts[1]
    ELSE parts[1] \o "/" \o JoinPath(Tail(parts))

\* the non-empty members of a list of texts
RECURSIVE NonEmpty(_)
NonEmpty(parts) ==
    IF parts = <<>> THEN <<>>
    ELSE (IF parts[1] = "" THEN <<>> ELSE <<parts[1]>>) \o NonEmpty(Tail(parts))

_sanitize_path(name) ==
    LET parts == SplitPath(StrStrip(name))
        safe_parts == [k \in 1..Len(parts) |-> IF StrStrip(parts[k]) = "" THEN "" ELSE _sanitize_name(parts[k])]
        joined == JoinPath(NonEmpty(safe_parts))
    IN IF joined = "" THEN "remote" ELSE joined

\* the names of the files of a store
RemoteNames(files) == {f[1] : f \in files}

\* _available_path: the base name, or the first of base_2, base_3, ... that
\* is not the name of a file
_available_path(files, base_name) ==
    IF base_name \notin RemoteNames(files) THEN base_name
    ELSE LET free == {index \in 2..(Cardinality(files) + 2) : (base_name \o "_" \o NatText(index)) \notin RemoteNames(files)}
         IN base_name \o "_" \o NatText(Min(free))

\* the folder of a file name: target.parent
ParentOf(name) ==
    LET seps == {k \in 1..Len(name) : Char(name, k) = "/"}
    IN IF seps = {} THEN "" ELSE SubSeq(name, 1, Max(seps) - 1)

\* target.parent.mkdir(parents=True, exist_ok=True): the folders made
ParentsOf(name) ==
    {SubSeq(name, 1, k - 1) : k \in {j \in 1..Len(name) : Char(name, j) = "/"}}

\* _resolve_path of a text without a dot: the stripped name when that file
\* exists, else the sanitised name
_resolve_path(files, remote) ==
    IF StrStrip(remote) # "" /\ StrStrip(remote) \in RemoteNames(files)
    THEN StrStrip(remote)
    ELSE _sanitize_path(remote)

\* path.write_text / path.replace: the file at the target has the content,
\* whatever was there before
WriteFile(files, target, content) ==
    {f \in files : f[1] # target} \cup {<<target, content>>}

LibraryCall(op, name, remote, target, raised, before) ==
    [op |-> op, name |-> name, remote |-> remote, target |-> target, raised |-> raised, before |-> before]

MaxRemotes == 2

RemoteNamePool ==
    {"a", " a!", "a_2", "tv/a", "/tv\\a_", "?"}

\* the serialised signal lists that are saved
RemoteContents == {"Power", "Mute"}

InitLibrary ==
    /\ NormIdle
    /\ DecIdle
    /\ ScIdle
    /\ FlIdle
    /\ AgIdle
    /\ BuIdle
    /\ BbIdle
    /\ CrIdle
    /\ LsIdle
    /\ lib_files = {}
    /\ lib_dirs = {""}
    /\ lib_call = LibraryCall("__init__", "", "", "", "", {})

\* save_remote(name, signals): write_text raises FileNotFoundError when the
\* folder of the target does not exist
SaveRemote ==
    /\ Cardinality(lib_files) < MaxRemotes
    /\ \E name \in RemoteNamePool, content \in RemoteContents :
          LET target == _available_path(lib_files, _sanitize_path(name))
          IN IF ParentOf(target) \in lib_dirs
             THEN /\ lib_files' = WriteFile(lib_files, target, content)
                  /\ lib_call' = LibraryCall("save_remote", name, "", target, "", lib_files)
             ELSE /\ lib_files' = lib_files
                  /\ lib_call' = LibraryCall("save_remote", name, "", target, "FileNotFoundError", lib_files)
    /\ UNCHANGED <<lib_dirs, normVars, decVars, scVars, flVars, agVars, buVars, bbVars, crVars, lsVars>>

\* rename_remote(remote, new_name): the folders of the target are made, then
\* path.replace(target) raises FileNotFoundError when the remote is missing
RenameRemote ==
    /\ \E remote \in RemoteNames(lib_files) \cup {"zz", "a!"}, new_name \in RemoteNamePool :
          LET path == _resolve_path(lib_files, remote)
              target == _available_path(lib_files, _sanitize_path(new_name))
          IN /\ lib_dirs' = lib_dirs \cup ParentsOf(target)
             /\ IF path \in RemoteNames(lib_files)
                THEN /\ lib_files' = WriteFile({f \in lib_files : f[1] # path}, target,
                                               (CHOOSE f \in lib_files : f[1] = path)[2])
                     /\ lib_call' = LibraryCall("rename_remote", new_name, path, target, "", lib_files)
                ELSE /\ lib_files' = lib_files
                     /\ lib_call' = LibraryCall("rename_remote", new_name, path, target, "FileNotFoundError", lib_files)
    /\ UNCHANGED <<normVars, decVars, scVars, flVars, agVars, buVars, bbVars, crVars, lsVars>>

NextLibrary == SaveRemote \/ RenameRemote

SpecLibrary == InitLibrary /\ [][NextLibrary]_vars

\* C30: after any sequence of save_remote and rename_remote calls no remote
\* file has been overwritten or lost: the path chosen by each call did not
\* exist before the call (a suffix _2, _3, ... is added on a collision, also
\* one made by sanitising the name), each save_remote adds exactly one
\* remote and keeps the others, and each rename_remote keeps the number of
\* remotes and every remote but the renamed one.
C30_NoRemoteLost ==
    /\ lib_call.op \in {"save_remote", "rename_remote"} =>
          lib_call.target \notin RemoteNames(lib_call.before)
    /\ lib_call.op = "save_remote" =>
          /\ Cardinality(lib_files) = Cardinality(lib_call.before) + 1
          /\ lib_call.before \subseteq lib_files
    /\ lib_call.op = "rename_remote" =>
          /\ Cardinality(lib_files) = Cardinality(lib_call.before)
          /\ {f \in lib_call.before : f[1] # lib_call.remote} \subseteq lib_files

(***************************************************************************)
(* SpecLearn: the Learn screen of IRScreen (ui/app.py).  The handlers      *)
(* show_subscreen and _retry_learn run on the UI thread, one at a time;    *)
(* the capture thread runs _capture_loop beside them and hands each        *)
(* capture to the UI thread with after().  A thread is at "test" (about    *)
(* to test the while condition), at "capturing" (inside capture_signal)    *)
(* or "done".  _capture_thread is the last thread started.                 *)
(***************************************************************************)
MaxThreads == 3

MaxLearnCaptures == 2

\* self._capture_thread and self._capture_thread.is_alive()
ThreadAlive ==
    ls_threads # <<>> /\ ls_threads[Len(ls_threads)] # "done"

InitLearn ==
    /\ LibIdle
    /\ NormIdle
    /\ DecIdle
    /\ ScIdle
    /\ FlIdle
    /\ AgIdle
    /\ BuIdle
    /\ BbIdle
    /\ CrIdle
    /\ ls_screen = "Main"
    /\ ls_threads = <<>>
    /\ ls_stop = FALSE
    /\ ls_captures = 0
    /\ ls_queue = 0
    /\ ls_event = "init"

\* _start_capture: nothing when the thread is alive; else the stop flag is
\* cleared and a new thread is started
_start_capture ==
    IF ThreadAlive
    THEN UNCHANGED <<ls_stop, ls_threads>>
    ELSE /\ ls_stop' = FALSE
         /\ ls_threads' = Append(ls_threads, "test")

\* _begin_learn_session: the capture list is cleared, then _start_capture
_begin_learn_session ==
    /\ ls_captures' = 0
    /\ _start_capture

\* show_subscreen("Learn New Remote")
EnterLearn ==
    /\ ls_screen # "Learn New Remote"
    /\ ThreadAlive \/ Len(ls_threads) < MaxThreads
    /\ ls_screen' = "Learn New Remote"
    /\ _begin_learn_session
    /\ ls_event' = "begin_learn_session"
    /\ UNCHANGED <<ls_queue, normVars, decVars, scVars, flVars, agVars, buVars, bbVars, crVars, libVars>>

\* the subscreens other than the Learn screen that the model visits
OtherScreens == {"Saved Remotes", "Universal Remotes"}

\* show_subscreen of another screen: _stop_capture sets the stop flag when
\* the thread is alive
LeaveLearn ==
    /\ \E name \in OtherScreens \ {ls_screen} : ls_screen' = name
    /\ ls_stop' = IF ThreadAlive THEN TRUE ELSE ls_stop
    /\ ls_event' = "stop_capture"
    /\ UNCHANGED <<ls_threads, ls_captures, ls_queue, normVars, decVars, scVars, flVars, agVars, buVars, bbVars, crVars, libVars>>

\* the Retry button of the Learn screen, shown once a capture was added:
\* _retry_learn
RetryLearn ==
    /\ ls_screen = "Learn New Remote"
    /\ ls_captures > 0
    /\ ThreadAlive \/ Len(ls_threads) < MaxThreads
    /\ _begin_learn_session
    /\ ls_event' = "begin_learn_session"
    /\ UNCHANGED <<ls_screen, ls_queue, normVars, decVars, scVars, flVars, agVars, buVars, bbVars, crVars, libVars>>

\* _capture_loop, the while test: the loop ends when the stop flag is set
LoopTest(t) ==
    /\ ls_threads[t] = "test"
    /\ ls_threads' = [ls_threads EXCEPT ![t] = IF ls_stop THEN "done" ELSE "capturing"]
    /\ ls_event' = "loop_test"
    /\ UNCHANGED <<ls_screen, ls_stop, ls_captures, ls_queue, normVars, decVars, scVars, flVars, agVars, buVars, bbVars, crVars, libVars>>

\* capture_signal returns a capture: _add_capture is queued with after()
\* and the loop goes round
CaptureReceived(t) ==
    /\ ls_threads[t] = "capturing"
    /\ ls_captures + ls_queue < MaxLearnCaptures
    /\ ls_queue' = ls_queue + 1
    /\ ls_threads' = [ls_threads EXCEPT ![t] = "test"]
    /\ ls_event' = "capture_received"
    /\ UNCHANGED <<ls_screen, ls_stop, ls_captures, normVars, decVars, scVars, flVars, agVars, buVars, bbVars, crVars, libVars>>

\* capture_signal returns nothing (idle timeout, or a stop): the loop returns
CaptureNothing(t) ==
    /\ ls_threads[t] = "capturing"
    /\ ls_threads' = [ls_threads EXCEPT ![t] = "done"]
    /\ ls_event' = "capture_nothing"
    /\ UNCHANGED <<ls_screen, ls_stop, ls_captures, ls_queue, normVars, decVars, scVars, flVars, agVars, buVars, bbVars, crVars, libVars>>

\* the UI thread runs a queued _add_capture
AddCaptureQueued ==
    /\ ls_queue > 0
    /\ ls_queue' = ls_queue - 1
    /\ ls_captures' = ls_captures + 1
    /\ ls_event' = "add_capture"
    /\ UNCHANGED <<ls_screen, ls_stop, ls_threads, normVars, decVars, scVars, flVars, agVars, buVars, bbVars, crVars, libVars>>

NextLearn ==
    \/ EnterLearn
    \/ LeaveLearn
    \/ RetryLearn
    \/ AddCaptureQueued
    \/ \E t \in 1..Len(ls_threads) : LoopTest(t) \/ CaptureReceived(t) \/ CaptureNothing(t)

SpecLearn == InitLearn /\ [][NextLearn]_vars

\* the capture threads that are alive
AliveThreads == {t \in 1..Len(ls_threads) : ls_threads[t] # "done"}

\* C29: under every interleaving of the UI actions (enter the Learn screen,
\* leave it, Retry) with the capture thread, at most one capture thread is
\* alive, and whenever _begin_learn_session has returned a capture loop is
\* running with the stop flag cleared, so that the next signal received is
\* appended to the session's capture list; leaving the Learn screen and
\* entering it again while the previous capture thread is still alive does
\* not leave the session without an active capture loop.
C29_LearnSession ==
    /\ Cardinality(AliveThreads) <= 1
    /\ (ls_event = "begin_learn_session") => (ThreadAlive /\ ~ls_stop)

(***************************************************************************)
(* SpecNormalize: a signed timing list is normalised, and the result is    *)
(* normalised again (the capture path stores the normalised list and the   *)
(* decoder normalises what it is handed).                                  *)
(***************************************************************************)
MaxNormLen == 4

\* marks are positive, spaces negative; 15000 is the timeout threshold
NormValues == {-20000, -7, 0, 5, 15000, 15001}

InitNormalize ==
    /\ LibIdle
    /\ LsIdle
    /\ CrIdle
    /\ BbIdle
    /\ BuIdle
    /\ AgIdle
    /\ DecIdle
    /\ ScIdle
    /\ FlIdle
    /\ norm_impl \in {"ir_decode", "lirc_client"}
    /\ norm_input \in BoundedSeq(NormValues, MaxNormLen)
    /\ norm_output = <<>>
    /\ norm_again = <<>>
    /\ norm_pc = "start"

NormalizeOnce ==
    /\ norm_pc = "start"
    /\ norm_output' = Normalize(norm_impl, norm_input)
    /\ norm_pc' = "once"
    /\ UNCHANGED <<norm_impl, norm_input, norm_again, decVars, scVars, flVars, agVars, buVars, bbVars, crVars, lsVars, libVars>>

NormalizeAgain ==
    /\ norm_pc = "once"
    /\ norm_again' = Normalize(norm_impl, norm_output)
    /\ norm_pc' = "twice"
    /\ UNCHANGED <<norm_impl, norm_input, norm_output, decVars, scVars, flVars, agVars, buVars, bbVars, crVars, lsVars, libVars>>

NextNormalize == NormalizeOnce \/ NormalizeAgain

SpecNormalize == InitNormalize /\ [][NextNormalize]_vars

(***************************************************************************)
(* Claims about normalisation.                                             *)
(***************************************************************************)
\* C6: normalisation is idempotent: normalising the normalised list of any
\* finite signed integer list gives that normalised list again.
C6_Idempotent == norm_pc = "twice" => norm_again = norm_output

\* C7: for every finite integer input the normaliser returns a sequence of
\* even length whose elements are all strictly positive.
C7_EvenPositive ==
    /\ norm_pc \in {"once", "twice"} =>
          /\ norm_output \in Seq(Nat \ {0})
          /\ Len(norm_output) % 2 = 0
    /\ norm_pc = "twice" =>
          /\ norm_again \in Seq(Nat \ {0})
          /\ Len(norm_again) % 2 = 0

\* a list with a leading space, a zero and a trailing timeout was normalised
\* to something non-empty
C7_Witness ==
    /\ norm_pc = "once"
    /\ norm_output # <<>>
    /\ \E i \in DOMAIN norm_input : norm_input[i] = 0
    /\ \E i \in DOMAIN norm_input : norm_input[i] > 15000

\* C8: whenever the normaliser returns a non-empty list, its first element
\* is the value of an input entry that was positive (a mark), never the
\* absolute value of a negative (space) entry.  (In NormValues no positive
\* value equals the magnitude of a negative one.)
C8_StartsWithPulse ==
    (norm_pc = "once" /\ norm_output # <<>>) =>
        \E i \in DOMAIN norm_input :
            norm_input[i] > 0 /\ norm_input[i] = norm_output[1]

====
